---------------------------- MODULE Spec2Model ----------------------------
(***************************************************************************)
(* Art-Net -> Hue Entertainment bridge.                                    *)
(*                                                                         *)
(* The module models the DTLS streaming controller (HueDtlsController,     *)
(* hue-dtls), the per-hub runner (HueEntertainmentRunner) and the parts of *)
(* their environment they react to: the wall clock, the DTLS socket and    *)
(* its events, the interval/timeout timers and the hub's HTTPS control     *)
(* plane.                                                                  *)
(*                                                                         *)
(* Objects are record-valued variables whose fields carry the names of the *)
(* source's fields.  A method is an operator from the object's record (and *)
(* the method's arguments) to the record after the call together with the  *)
(* return value and the datagrams the call wrote to the socket; an action  *)
(* is one turn of the Node.js event loop (a public call, a socket event    *)
(* with the listeners it runs, a timer callback) or the passage of time.   *)
(*                                                                         *)
(* Two specifications are defined:                                         *)
(*   Spec        one controller driven directly through its public API     *)
(*   RunnerSpec  one runner driving its controller                         *)
(***************************************************************************)
EXTENDS Integers, Sequences, FiniteSets, TLC

VARIABLES
    now,      \* Date.now(), in ms
    dtls,     \* the HueDtlsController instance (its private fields)
    sock,     \* the DTLS socket returned by @nodertc/dtls connect()
    events,   \* events emitted by the controller so far, in order
    runner,   \* the HueEntertainmentRunner instance
    status,   \* the hub's entry in RuntimeStatus
    bridge,   \* the hub's control plane (what the HTTPS requests reach)
    cli,      \* the process (startProcess): receiver, runners, signal handler
    hist,     \* history of the run the properties refer to
    last      \* the event-loop turn just taken and what it returned/wrote

vars == <<now, dtls, sock, events, runner, status, bridge, cli, hist, last>>

-----------------------------------------------------------------------------
(* Options: null is <<>>, a value x is <<x>>.                              *)
None == <<>>
Some(x) == <<x>>
IsSome(o) == o # <<>>
Get(o) == o[1]

-----------------------------------------------------------------------------
(* Program constants.                                                      *)
minIntervalMs == 40
KeepaliveIntervalMs == 1000
KeepaliveStaleMs == 2000
StartSleepMs == 1000

(* Bounds of the model: the frames and solid colours a runner counts, the  *)
(* frames the receiver of a process receives, the updates of one encoded   *)
(* packet, the calls of ConfigStore.load(), and the Art-Net controllers a  *)
(* receiver creates.                                                       *)
MaxCalls == 2
MaxDmx == 3
MaxUpdates == 2
MaxLoads == 2
MaxBinds == 3

(* The clock.  The code only ever subtracts a stored instant from the      *)
(* present and compares the difference with minIntervalMs or               *)
(* KeepaliveStaleMs, so instants are kept relative to the start of the     *)
(* current second: within a second the clock moves over the sample points  *)
(* Base + o; when the next second starts (Rollover) the clock reads Base   *)
(* again and every stored instant is moved KeepaliveIntervalMs back, which *)
(* leaves all differences as they are.  An instant more than Horizon in    *)
(* the past stays at Base - Horizon: it is older than every threshold; an  *)
(* instant only compared with minIntervalMs stays at Base - SendHorizon.   *)
(* The offsets sit on either side of the throttle window.  Base is large   *)
(* enough for every instant to be positive, as Date.now() is.              *)
Horizon == KeepaliveStaleMs + KeepaliveIntervalMs
SendHorizon == KeepaliveIntervalMs
Base == Horizon + KeepaliveIntervalMs
Offsets == {0, minIntervalMs - 1, minIntervalMs}
TimePoints == {Base + o : o \in Offsets}
RunnerTimePoints == {Base + minIntervalMs}

RebasePast(x, horizon) ==
    IF x - KeepaliveIntervalMs < Base - horizon
    THEN Base - horizon
    ELSE x - KeepaliveIntervalMs

RebasePastOpt(o, horizon) == IF IsSome(o) THEN Some(RebasePast(Get(o), horizon)) ELSE None

RebaseDueOpt(o) == IF IsSome(o) THEN Some(Get(o) - KeepaliveIntervalMs) ELSE None

-----------------------------------------------------------------------------
(* Wire format (sendUpdatePacket).                                         *)
PACKET_HEADER == <<72, 117, 101, 83, 116, 114, 101, 97, 109>>

RECURSIVE Records_LittleEndian(_)
Records_LittleEndian(updates) ==
    IF updates = <<>> THEN <<>>
    ELSE LET u == Head(updates) IN
         << u.channelId % 256,
            u.color[1] % 256, u.color[1] \div 256,
            u.color[2] % 256, u.color[2] \div 256,
            u.color[3] % 256, u.color[3] \div 256 >>
            \o Records_LittleEndian(Tail(updates))

(* The 7-byte records of updates.forEach, in the updates' order.           *)
RECURSIVE Records(_)
Records(updates) ==
    IF updates = <<>> THEN <<>>
    ELSE LET u == Head(updates) IN
         << u.channelId % 256,
            u.color[1] \div 256, u.color[1] % 256,
            u.color[2] \div 256, u.color[2] % 256,
            u.color[3] \div 256, u.color[3] % 256 >> \o Records(Tail(updates))

Message(entertainmentConfigurationId, updates) ==
    PACKET_HEADER \o <<2, 0, 0, 0, 0, 0, 0>> \o entertainmentConfigurationId
        \o Records(updates)

-----------------------------------------------------------------------------
(* HueDtlsController.                                                      *)

(* constructor: the fields' initial values.                                *)
NewController(entertainmentConfigurationId) ==
    [ entertainmentConfigurationId |-> entertainmentConfigurationId,
      socket |-> "null",
      opened |-> FALSE,
      skip |-> FALSE,
      lastUpdate |-> None,
      lastUpdateTimestamp |-> None,
      updateKeepaliveTimeout |-> None,
      lastPacketSentAtMs |-> 0 ]

(* connect(): the socket is created (handshake in flight), the keepalive   *)
(* interval is armed, the socket is stored.  The listeners registered on   *)
(* the socket are the actions SocketConnect, SocketClose and SocketError.  *)
connect(c, t) ==
    [c EXCEPT !.updateKeepaliveTimeout = Some(t + KeepaliveIntervalMs),
              !.socket = "socket"]

close_NoGuard(c) ==
    [c |-> [c EXCEPT !.opened = FALSE], ended |-> TRUE]

(* close() up to its await: ended tells whether socket.end(cb) was called. *)
(* The rest of close(), emit('close'), runs when the callback fires.       *)
close(c) ==
    IF ~c.opened
    THEN [c |-> c, ended |-> FALSE]
    ELSE [c |-> [c EXCEPT !.opened = FALSE], ended |-> TRUE]

sendUpdatePacket_Unguarded(c, updates) ==
    [ok |-> TRUE, wrote |-> <<Message(c.entertainmentConfigurationId, updates)>>]

(* sendUpdatePacket(updates): writes the datagram when opened.             *)
sendUpdatePacket(c, updates) ==
    IF c.opened
    THEN [ok |-> TRUE, wrote |-> <<Message(c.entertainmentConfigurationId, updates)>>]
    ELSE [ok |-> FALSE, wrote |-> <<>>]

sendUpdate_NoStamp(c, updates, t) ==
    IF c.socket = "null" \/ ~c.opened
    THEN [c |-> c, ret |-> "not_open", wrote |-> <<>>]
    ELSE LET c1 == [c EXCEPT !.lastUpdate = Some(updates),
                             !.lastUpdateTimestamp = Some(t)]
         IN  IF c1.lastPacketSentAtMs # 0
                /\ t - c1.lastPacketSentAtMs < minIntervalMs
             THEN [c |-> c1, ret |-> "throttled", wrote |-> <<>>]
             ELSE [c |-> c1, ret |-> "sent", wrote |-> sendUpdatePacket(c1, updates).wrote]

sendUpdate_RateHalving(c, updates, t) ==
    IF c.socket = "null" \/ ~c.opened
    THEN [c |-> c, ret |-> "not_open", wrote |-> <<>>]
    ELSE IF c.skip
    THEN [c |-> [c EXCEPT !.skip = FALSE], ret |-> "skipped", wrote |-> <<>>]
    ELSE LET c1 == [c EXCEPT !.skip = TRUE,
                             !.lastUpdate = Some(updates),
                             !.lastUpdateTimestamp = Some(t)]
         IN  IF c1.lastPacketSentAtMs # 0
                /\ t - c1.lastPacketSentAtMs < minIntervalMs
             THEN [c |-> c1, ret |-> "throttled", wrote |-> <<>>]
             ELSE [c |-> [c1 EXCEPT !.lastPacketSentAtMs = t],
                   ret |-> "sent", wrote |-> sendUpdatePacket(c1, updates).wrote]

sendUpdate_CacheAfterThrottle(c, updates, t) ==
    IF c.socket = "null" \/ ~c.opened
    THEN [c |-> c, ret |-> "not_open", wrote |-> <<>>]
    ELSE IF c.lastPacketSentAtMs # 0 /\ t - c.lastPacketSentAtMs < minIntervalMs
    THEN [c |-> c, ret |-> "throttled", wrote |-> <<>>]
    ELSE LET c1 == [c EXCEPT !.lastUpdate = Some(updates),
                             !.lastUpdateTimestamp = Some(t),
                             !.lastPacketSentAtMs = t]
         IN  [c |-> c1, ret |-> "sent", wrote |-> sendUpdatePacket(c1, updates).wrote]

sendUpdate_ThrottledMovesWindow(c, updates, t) ==
    IF c.socket = "null" \/ ~c.opened
    THEN [c |-> c, ret |-> "not_open", wrote |-> <<>>]
    ELSE LET c1 == [c EXCEPT !.lastUpdate = Some(updates),
                             !.lastUpdateTimestamp = Some(t),
                             !.lastPacketSentAtMs = t]
         IN  IF c.lastPacketSentAtMs # 0 /\ t - c.lastPacketSentAtMs < minIntervalMs
             THEN [c |-> c1, ret |-> "throttled", wrote |-> <<>>]
             ELSE [c |-> c1, ret |-> "sent", wrote |-> sendUpdatePacket(c1, updates).wrote]

(* sendUpdate(updates) called at time t.                                   *)
sendUpdate(c, updates, t) ==
    IF c.socket = "null" \/ ~c.opened
    THEN [c |-> c, ret |-> "not_open", wrote |-> <<>>]
    ELSE IF c.skip
    THEN [c |-> [c EXCEPT !.skip = FALSE], ret |-> "skipped", wrote |-> <<>>]
    ELSE LET c1 == [c EXCEPT !.lastUpdate = Some(updates),
                             !.lastUpdateTimestamp = Some(t)]
         IN  IF c1.lastPacketSentAtMs # 0
                /\ t - c1.lastPacketSentAtMs < minIntervalMs
             THEN [c |-> c1, ret |-> "throttled", wrote |-> <<>>]
             ELSE LET p == sendUpdatePacket(c1, updates)
                  IN  IF p.ok
                      THEN [c |-> [c1 EXCEPT !.lastPacketSentAtMs = t],
                            ret |-> "sent", wrote |-> p.wrote]
                      ELSE [c |-> c1, ret |-> "not_open", wrote |-> p.wrote]

updateKeepalive_StrictlyYounger(c, t) ==
    IF IsSome(c.lastUpdateTimestamp)
       /\ t - Get(c.lastUpdateTimestamp) < KeepaliveStaleMs
    THEN <<>>
    ELSE IF IsSome(c.lastUpdate)
    THEN sendUpdatePacket(c, Get(c.lastUpdate)).wrote
    ELSE <<>>

updateKeepalive_OnlyBeforeFirstCall(c, t) ==
    IF IsSome(c.lastUpdateTimestamp)
    THEN <<>>
    ELSE IF IsSome(c.lastUpdate)
    THEN sendUpdatePacket(c, Get(c.lastUpdate)).wrote
    ELSE <<>>

(* updateKeepalive() run at time t: the datagrams it writes.               *)
updateKeepalive(c, t) ==
    IF IsSome(c.lastUpdateTimestamp)
       /\ t - Get(c.lastUpdateTimestamp) <= KeepaliveStaleMs
    THEN <<>>
    ELSE IF IsSome(c.lastUpdate)
    THEN sendUpdatePacket(c, Get(c.lastUpdate)).wrote
    ELSE <<>>

(* The lifecycle state (Idle, Handshaking, Open, Closed) of a controller c  *)
(* whose socket is s.                                                      *)
StateOf(c, s) ==
    IF c.opened THEN "Open"
    ELSE IF s.state = "none" THEN "Idle"
    ELSE IF s.state = "handshaking" THEN "Handshaking"
    ELSE "Closed"

ControllerState == StateOf(dtls, sock)

-----------------------------------------------------------------------------
(* RuntimeStatus: the hub's entry (upsertHub) and its event methods.       *)
NewHubStatus ==
    [ started |-> FALSE,
      streamingEnabled |-> FALSE,
      dtlsConnected |-> FALSE,
      lastError |-> None,
      dmxFramesMatched |-> 0,
      updatePacketsSent |-> 0,
      updatePacketsDropped |-> 0,
      updatePacketsThrottled |-> 0,
      lights |-> <<>> ]

setHubStarted(st, started) == [st EXCEPT !.started = started]
setStreamingEnabled(st, enabled) == [st EXCEPT !.streamingEnabled = enabled]
setDtlsConnected(st, connected) == [st EXCEPT !.dtlsConnected = connected]
setHubError(st, err) == [st EXCEPT !.lastError = Some(err)]
onHubDmxMatched(st) == [st EXCEPT !.dmxFramesMatched = @ + 1]
onHubPacketSent(st) == [st EXCEPT !.updatePacketsSent = @ + 1]
onHubPacketDropped(st) == [st EXCEPT !.updatePacketsDropped = @ + 1]
onHubPacketThrottled(st) == [st EXCEPT !.updatePacketsThrottled = @ + 1]

(* onLightRgb(hubId, lightId, rgb16): the light's entry, keyed by its id,  *)
(* takes the colour.                                                       *)
onLightRgb(st, lightId, rgb16) ==
    [st EXCEPT !.lights = [k \in (DOMAIN @) \cup {lightId} |->
                              IF k = lightId THEN rgb16 ELSE @[k]]]

(* The receiver's entry after initArtNet (the bind address left out).      *)
NewArtNetStatus == [bindIp |-> "0.0.0.0", framesTotal |-> 0, framesByUniverse |-> <<>>]

(* initArtNet(bindIp) on the receiver's entry a: a second call only sets   *)
(* the address.                                                            *)
initArtNet(a, bindIp) ==
    IF ~IsSome(a) THEN Some([NewArtNetStatus EXCEPT !.bindIp = bindIp])
    ELSE Some([Get(a) EXCEPT !.bindIp = bindIp])

onDmxFrame_CountRestarts(a, universe) ==
    IF ~IsSome(a) THEN a
    ELSE Some([Get(a) EXCEPT
                 !.framesTotal = @ + 1,
                 !.framesByUniverse =
                     [k \in (DOMAIN @) \cup {universe} |->
                         IF k = universe THEN 1 ELSE @[k]]])

(* onDmxFrame(universe) on the receiver's entry a (null before initArtNet). *)
onDmxFrame(a, universe) ==
    IF ~IsSome(a) THEN a
    ELSE Some([Get(a) EXCEPT
                 !.framesTotal = @ + 1,
                 !.framesByUniverse =
                     [k \in (DOMAIN @) \cup {universe} |->
                         IF k = universe
                         THEN (IF universe \in DOMAIN @ THEN @[universe] ELSE 0) + 1
                         ELSE @[k]]])

(* The elements of a set of numbers in ascending order.                    *)
RECURSIVE Ascending(_)
Ascending(S) ==
    IF S = {} THEN <<>>
    ELSE LET m == CHOOSE x \in S : \A y \in S : x <= y
         IN  <<m>> \o Ascending(S \ {m})

snapshot_CopyAll(a, st, t) ==
    [ now |-> t,
      artnet |-> [copy |-> a],
      hubs |-> << [st EXCEPT !.lights =
                      [i \in 1..Cardinality(DOMAIN st.lights) |->
                          [copy |-> [lightId |-> Ascending(DOMAIN st.lights)[i],
                                     rgb16 |-> st.lights[Ascending(DOMAIN st.lights)[i]]]]]] >> ]

(* snapshot() at time t, of the receiver's entry a and the hub's entry st: *)
(* what the returned object holds.  now and the hub's own fields are       *)
(* copies ({...h}); artnet is this.artnet itself, and the lights are the   *)
(* entries' own objects (Object.values(h.lights)), sorted by lightId: a    *)
(* reference stands for the object it points to.                           *)
snapshot(a, st, t) ==
    [ now |-> t,
      artnet |-> [ref |-> "artnet"],
      hubs |-> << [st EXCEPT !.lights =
                      [i \in 1..Cardinality(DOMAIN st.lights) |->
                          [ref |-> Ascending(DOMAIN st.lights)[i]]]] >> ]

(* What a reader of the returned object s sees when the receiver's entry   *)
(* is a and the hub's entry is st: references are followed to the objects  *)
(* as they are now, copies are read as they were made.                     *)
ReadSnapshot(s, a, st) ==
    [ now |-> s.now,
      artnet |-> IF "ref" \in DOMAIN s.artnet THEN a ELSE s.artnet.copy,
      hubs |-> [h \in 1..Len(s.hubs) |->
                  [s.hubs[h] EXCEPT !.lights =
                      [i \in 1..Len(@) |->
                          IF "ref" \in DOMAIN @[i]
                          THEN [lightId |-> @[i].ref, rgb16 |-> st.lights[@[i].ref]]
                          ELSE @[i].copy]]] ]

-----------------------------------------------------------------------------
(* DmxLight: the channel decoders (spec 4.1).                              *)
channelWidth(mode) ==
    CASE mode = "8bit" -> 3
      [] mode = "8bit-dimmable" -> 4
      [] mode = "16bit" -> 6

Byte(dmxData, i) == IF i <= Len(dmxData) THEN dmxData[i] ELSE 0

Clamp16(v) == IF v < 0 THEN 0 ELSE IF v > 65535 THEN 65535 ELSE v

(* (X * Dim * 257 * 257) / 65535 truncated and clamped; as 65535 is        *)
(* 255 * 257, the quotient is that of X * Dim * 257 by 255, which stays    *)
(* within 32 bits.                                                         *)
Dimmed(x, dim) == Clamp16((x * dim * 257) \div 255)

getColorValue(mode, d) ==
    CASE mode = "8bit" ->
           << Byte(d, 1) * 257, Byte(d, 2) * 257, Byte(d, 3) * 257 >>
      [] mode = "8bit-dimmable" ->
           << Dimmed(Byte(d, 2), Byte(d, 1)),
              Dimmed(Byte(d, 3), Byte(d, 1)),
              Dimmed(Byte(d, 4), Byte(d, 1)) >>
      [] mode = "16bit" ->
           << Byte(d, 1) * 256 + Byte(d, 2),
              Byte(d, 3) * 256 + Byte(d, 4),
              Byte(d, 5) * 256 + Byte(d, 6) >>

Slice_FromSlotNumber(data, from, to) ==
    LET hi == IF to + 1 < Len(data) THEN to + 1 ELSE Len(data)
    IN  IF from + 1 >= hi THEN <<>> ELSE [i \in 1..(hi - from - 1) |-> data[from + 1 + i]]

(* Buffer.slice(from, to) with 0-based, end-exclusive bounds.              *)
Slice(data, from, to) ==
    LET hi == IF to < Len(data) THEN to ELSE Len(data)
    IN  IF from >= hi THEN <<>> ELSE [i \in 1..(hi - from) |-> data[from + i]]

-----------------------------------------------------------------------------
(* HueEntertainmentRunner.                                                 *)

(* constructor.  pc is where start() stands, closeDtls and closeApi where  *)
(* the close() call that took the controller, resp. the API handle, stands.*)
NewRunner(h) ==
    [ hub |-> h,
      hueApi |-> "null",
      lights |-> <<>>,
      dtlsController |-> "null",
      listening |-> FALSE,
      pc |-> "new",
      error |-> None,
      wakeAt |-> None,          \* the sleep's timer: when it fires,
      startReturnedAt |-> None, \*   and when the start request had returned
      closeDtls |-> "none",
      closeApi |-> "none" ]

(* start(), lines 52-54: the ids the hub reports but the mappings lack,    *)
(* and the mapped ids the hub does not report.                             *)
Missing_NoneReported(channels, channelIds) == <<>>

Missing(channels, channelIds) ==
    SelectSeq(channelIds,
              LAMBDA id : \A i \in 1..Len(channels) : channels[i].channelId # id)

Extra(channels, channelIds) ==
    SelectSeq([i \in 1..Len(channels) |-> channels[i].channelId],
              LAMBDA id : \A j \in 1..Len(channelIds) : channelIds[j] # id)

BuildLights_SkipsFirst(channels) ==
    [i \in 1..(Len(channels) - 1) |->
        [ dmxStart |-> channels[i + 1].dmxStart,
          lightId |-> channels[i + 1].channelId,
          mode |-> channels[i + 1].channelMode ]]

(* start(), lines 61-65: one DmxLight per channel, in mapping order.       *)
BuildLights(channels) ==
    [i \in 1..Len(channels) |->
        [ dmxStart |-> channels[i].dmxStart,
          lightId |-> channels[i].channelId,
          mode |-> channels[i].channelMode ]]

(* The counters handleDmx and sendSolidColor bump for a sendUpdate result. *)
CountResult(st, ret) ==
    IF ret = "sent" THEN onHubPacketSent(st)
    ELSE IF ret = "throttled" THEN onHubPacketThrottled(st)
    ELSE onHubPacketDropped(st)

FrameUpdates_ReverseOrder(lights, data) ==
    [i \in 1..Len(lights) |->
        LET l == lights[Len(lights) + 1 - i] IN
        [ channelId |-> l.lightId,
          color |-> getColorValue(l.mode,
                                  Slice(data, l.dmxStart - 1,
                                        (l.dmxStart - 1) + channelWidth(l.mode))) ]]

(* handleDmx, lines 96-102: each light's slice of the frame, decoded, in   *)
(* the lights' order.                                                      *)
FrameUpdates(lights, data) ==
    [i \in 1..Len(lights) |->
        [ channelId |-> lights[i].lightId,
          color |-> getColorValue(lights[i].mode,
                                  Slice(data, lights[i].dmxStart - 1,
                                        (lights[i].dmxStart - 1)
                                           + channelWidth(lights[i].mode))) ]]

(* The onLightRgb calls of one pass over the lights, in the lights' order. *)
RECURSIVE RecordLights(_, _)
RecordLights(st, updates) ==
    IF updates = <<>> THEN st
    ELSE RecordLights(onLightRgb(st, Head(updates).channelId, Head(updates).color),
                      Tail(updates))

handleDmx_IgnoresUniverse(rn, c, st, dmx, t) ==
    LET st1 == onHubDmxMatched(st) IN
    IF rn.dtlsController = "null"
    THEN [dtls |-> c, status |-> st1, ret |-> "none", wrote |-> <<>>]
    ELSE LET updates == FrameUpdates(rn.lights, dmx.data)
             res == sendUpdate(c, updates, t)
         IN  [dtls |-> res.c,
              status |-> CountResult(RecordLights(st1, updates), res.ret),
              ret |-> res.ret, wrote |-> res.wrote]

(* handleDmx(dmx) at time t.                                               *)
handleDmx(rn, c, st, dmx, t) ==
    IF dmx.universe # rn.hub.artNetUniverse
    THEN [dtls |-> c, status |-> st, ret |-> "none", wrote |-> <<>>]
    ELSE LET st1 == onHubDmxMatched(st) IN
         IF rn.dtlsController = "null"
         THEN [dtls |-> c, status |-> st1, ret |-> "none", wrote |-> <<>>]
         ELSE LET updates == FrameUpdates(rn.lights, dmx.data)
                  res == sendUpdate(c, updates, t)
              IN  [dtls |-> res.c,
                   status |-> CountResult(RecordLights(st1, updates), res.ret),
                   ret |-> res.ret, wrote |-> res.wrote]

(* The update sendSolidColor sends: every light's channel at rgb16.        *)
SolidUpdates(lights, rgb16) ==
    [i \in 1..Len(lights) |-> [channelId |-> lights[i].lightId, color |-> rgb16]]

(* sendSolidColor(rgb16) at time t.                                        *)
sendSolidColor(rn, c, st, rgb16, t) ==
    IF rn.dtlsController = "null"
    THEN [dtls |-> c, status |-> onHubPacketDropped(st),
          ret |-> "not_open", wrote |-> <<>>]
    ELSE LET updates == SolidUpdates(rn.lights, rgb16)
             res == sendUpdate(c, updates, t)
         IN  [dtls |-> res.c,
              status |-> CountResult(RecordLights(st, updates), res.ret),
              ret |-> res.ret, wrote |-> res.wrote]

(* The update onDtlsConnected sends: every light's channel at (0, 0, 0).   *)
BlackUpdates(lights) == SolidUpdates(lights, <<0, 0, 0>>)

onDtlsConnected_NoArming(rn, c, st, t) ==
    [dtls |-> c, status |-> setDtlsConnected(st, TRUE), ret |-> "none", wrote |-> <<>>]

(* onDtlsConnected() at time t.                                            *)
onDtlsConnected(rn, c, st, t) ==
    LET st1 == setDtlsConnected(st, TRUE) IN
    IF rn.dtlsController = "null"
    THEN [dtls |-> c, status |-> st1, ret |-> "none", wrote |-> <<>>]
    ELSE LET res == sendUpdate(c, BlackUpdates(rn.lights), t)
         IN  [dtls |-> res.c,
              status |-> IF res.ret = "sent" THEN onHubPacketSent(st1) ELSE st1,
              ret |-> res.ret, wrote |-> res.wrote]

(* emit('connected'), emit('close'), emit('error'): the listeners start()  *)
(* registers (lines 80-85) run if registered.                              *)
EmitConnected(rn, c, st, t) ==
    IF rn.listening THEN onDtlsConnected(rn, c, st, t)
    ELSE [dtls |-> c, status |-> st, ret |-> "none", wrote |-> <<>>]

EmitClose(rn, st) == IF rn.listening THEN setDtlsConnected(st, FALSE) ELSE st

EmitError(rn, st) == IF rn.listening THEN setHubError(st, "DTLS error") ELSE st

-----------------------------------------------------------------------------
(* Inputs.                                                                 *)

(* A 36-character configuration id (as character codes) and a short one.   *)
ConfigId == [i \in 1..36 |-> IF i \in {9, 14, 19, 24} THEN 45 ELSE 48 + (i % 10)]
ShortId == <<49, 50, 51>>

Channel(id, start, mode) == [channelId |-> id, dmxStart |-> start, channelMode |-> mode]

ChannelLists ==
    { << Channel(0, 1, "8bit"), Channel(1, 4, "8bit-dimmable") >>,
      << Channel(1, 1, "16bit") >>,
      << Channel(0, 1, "8bit"), Channel(1, 4, "8bit"), Channel(2, 7, "8bit") >> }

RemoteChannelIds == { <<0, 1>>, <<0, 1, 3>> }

FrameUniverses == {0, 1}

Frames ==
    { [universe |-> u,
       data |-> IF u = 0 THEN <<255, 0, 0, 128, 0, 255>>
                ELSE <<255, 255, 255, 255, 255, 255, 255>>] : u \in FrameUniverses }

SolidColors == { <<65535, 0, 0>> }

(* Updates handed to sendUpdate when the controller is driven directly.    *)
UpdateInputs ==
    { << [channelId |-> 0, color |-> <<0, 0, 0>>] >>,
      << [channelId |-> 0, color |-> <<65535, 0, 4660>>],
         [channelId |-> 1, color |-> <<0, 33024, 0>>] >> }

-----------------------------------------------------------------------------
(* Bookkeeping for the properties.                                         *)
NewHist ==
    [ lastCallAt |-> None,      \* of the direct sendUpdate calls: instant of the last,
      lastPassed |-> None,      \*   last update passed while Open,
      lastSentAt |-> None,      \*   instant of the last that returned sent,
      lastRet |-> "none",       \*   what the last returned
      firstDatagram |-> None,   \* first datagram written to the socket
      closedBy |-> "none",      \* what moved the controller to Closed
      sleptFor |-> None ]       \* at connect(): time since the start request returned

(* The event-loop turn just taken: the operation, its argument, what it    *)
(* returned, the datagrams it wrote and, for a sendUpdate that returned    *)
(* sent, the time since the previous call that returned sent.              *)
Turn(op, arg, ret, wrote, gap) ==
    [op |-> op, arg |-> arg, ret |-> ret, wrote |-> wrote, gap |-> gap]

NoTurn == Turn("init", <<>>, "none", <<>>, None)

Quiet(op) == Turn(op, <<>>, "none", <<>>, None)

SentGap(h, ret, t) ==
    IF ret = "sent" /\ IsSome(h.lastSentAt) THEN Some(t - Get(h.lastSentAt)) ELSE None

(* A sendUpdate call with argument updates returned ret at time t.         *)
NoteCall(h, wasOpen, updates, ret, t) ==
    [h EXCEPT !.lastCallAt = Some(t),
              !.lastPassed = IF wasOpen THEN Some(updates) ELSE @,
              !.lastSentAt = IF ret = "sent" THEN Some(t) ELSE @,
              !.lastRet = ret]

NoteWrote(h, wrote) ==
    IF wrote # <<>> /\ ~IsSome(h.firstDatagram)
    THEN [h EXCEPT !.firstDatagram = Some(wrote[1])]
    ELSE h

NoteClosed(h, before, after, by) ==
    IF before # "Closed" /\ after = "Closed" /\ h.closedBy = "none"
    THEN [h EXCEPT !.closedBy = by]
    ELSE h

-----------------------------------------------------------------------------
(* Time and timers.                                                        *)
DueTimes ==
    (IF IsSome(dtls.updateKeepaliveTimeout) THEN {Get(dtls.updateKeepaliveTimeout)} ELSE {})
    \cup (IF IsSome(runner.wakeAt) THEN {Get(runner.wakeAt)} ELSE {})

(* Time passes up to t within the current second; no armed timer is        *)
(* passed over.  The program reads the clock only in the controller's      *)
(* sendUpdate and keepalive and through its timers, and connect() arms the *)
(* keepalive interval: while no timer is armed the clock is not observed,  *)
(* and it is left where it is.                                             *)
Advance(t) ==
    /\ t > now
    /\ DueTimes # {}
    /\ \A d \in DueTimes : t <= d
    /\ now' = t
    /\ last' = Quiet("advance")
    /\ UNCHANGED <<dtls, sock, events, runner, status, bridge, hist>>
    /\ UNCHANGED cli

(* Time passes up to the start of the next second, and the clock and the   *)
(* stored instants are rebased.                                            *)
Rollover ==
    /\ DueTimes # {}
    /\ \A d \in DueTimes : Base + KeepaliveIntervalMs <= d
    /\ now' = Base
    /\ dtls' = [dtls EXCEPT
                  !.lastUpdateTimestamp = RebasePastOpt(@, Horizon),
                  !.lastPacketSentAtMs = IF @ = 0 THEN 0 ELSE RebasePast(@, SendHorizon),
                  !.updateKeepaliveTimeout = RebaseDueOpt(@)]
    /\ runner' = [runner EXCEPT !.wakeAt = RebaseDueOpt(@),
                                !.startReturnedAt = RebasePastOpt(@, Horizon)]
    /\ hist' = [hist EXCEPT !.lastCallAt = RebasePastOpt(@, Horizon),
                            !.lastSentAt = RebasePastOpt(@, SendHorizon)]
    /\ last' = Quiet("advance")
    /\ UNCHANGED <<sock, events, status, bridge>>
    /\ UNCHANGED cli

(* The setInterval callback of connect(): updateKeepalive().               *)
KeepaliveTick ==
    /\ IsSome(dtls.updateKeepaliveTimeout)
    /\ now = Get(dtls.updateKeepaliveTimeout)
    /\ LET wrote == updateKeepalive(dtls, now) IN
       /\ dtls' = [dtls EXCEPT !.updateKeepaliveTimeout = Some(now + KeepaliveIntervalMs)]
       /\ hist' = NoteWrote(hist, wrote)
       /\ last' = Turn("keepalive", <<>>, "none", wrote, None)
    /\ UNCHANGED <<now, sock, events, runner, status, bridge>>
    /\ UNCHANGED cli

-----------------------------------------------------------------------------
(* The socket's events and the listeners connect() puts on them.           *)

(* close() called from a listener or by the runner: the controller after   *)
(* the call and the socket after a possible socket.end(cb).                *)
EndSocket(s, ended) ==
    IF ended THEN [s EXCEPT !.endCalls = @ + 1, !.endPending = TRUE] ELSE s

(* socket 'connect': handshake done.                                       *)
SocketConnect ==
    /\ sock.state = "handshaking"
    /\ LET r == EmitConnected(runner, [dtls EXCEPT !.opened = TRUE], status, now) IN
       /\ dtls' = r.dtls
       /\ status' = r.status
       /\ hist' = NoteWrote(hist, r.wrote)
       /\ last' = Turn("connected", <<>>, r.ret, r.wrote, None)
    /\ sock' = [sock EXCEPT !.state = "connected"]
    /\ events' = Append(events, "connected")
    /\ UNCHANGED <<now, runner, bridge>>
    /\ UNCHANGED cli

SocketClose_Reconnect ==
    /\ sock.state \in {"handshaking", "connected", "errored"}
    /\ dtls' = connect(close(dtls).c, now)
    /\ sock' = [sock EXCEPT !.state = "handshaking"]
    /\ last' = Quiet("socketClose")
    /\ UNCHANGED <<now, events, runner, status, bridge, hist>>
    /\ UNCHANGED cli

(* socket 'close': the peer closed, the handshake timed out, or the socket *)
(* finished after end() or an error.                                       *)
SocketClose ==
    /\ sock.state \in {"handshaking", "connected", "errored"}
    /\ LET r == close(dtls)
           s1 == EndSocket([sock EXCEPT !.state = "closed"], r.ended)
       IN  /\ dtls' = r.c
           /\ sock' = s1
           /\ hist' = NoteClosed(hist, ControllerState, StateOf(r.c, s1), "peer")
    /\ last' = Quiet("socketClose")
    /\ UNCHANGED <<now, events, runner, status, bridge>>
    /\ UNCHANGED cli

(* socket 'error'.                                                         *)
SocketError ==
    /\ sock.state \in {"handshaking", "connected"}
    /\ LET r == close(dtls)
           s1 == EndSocket([sock EXCEPT !.state = "errored"], r.ended)
       IN  /\ dtls' = r.c
           /\ sock' = s1
           /\ hist' = NoteClosed(hist, ControllerState, StateOf(r.c, s1), "error")
    /\ events' = Append(events, "error")
    /\ status' = EmitError(runner, status)
    /\ last' = Quiet("socketError")
    /\ UNCHANGED <<now, runner, bridge>>
    /\ UNCHANGED cli

(* The issue of the stop request by the close() that holds the API handle. *)
IssueStop(b) == [b EXCEPT !.stopRequests = @ + 1]

(* The callback of socket.end(cb): close() resumes and emits 'close'; a    *)
(* runner close() awaiting it (line 119) resumes and, if it holds the API  *)
(* handle, issues the stop request (line 121).                             *)
EndCallback ==
    /\ sock.endPending
    /\ sock' = [sock EXCEPT !.endPending = FALSE]
    /\ events' = Append(events, "close")
    /\ status' = EmitClose(runner, status)
    /\ IF runner.closeDtls = "pending"
       THEN /\ runner' = [runner EXCEPT !.closeDtls = "done",
                                        !.closeApi = IF @ = "waitDtls" THEN "stopRequested" ELSE @]
            /\ bridge' = IF runner.closeApi = "waitDtls" THEN IssueStop(bridge) ELSE bridge
       ELSE UNCHANGED <<runner, bridge>>
    /\ last' = Quiet("endCallback")
    /\ UNCHANGED <<now, dtls, hist>>
    /\ UNCHANGED cli

-----------------------------------------------------------------------------
(* The controller's public API, called directly.  As in the runner, the    *)
(* caller connects an instance once (hue-runner.ts lines 68 and 79) and    *)
(* listens to its events.                                                  *)
Connect ==
    /\ sock.state = "none"
    /\ dtls' = connect(dtls, now)
    /\ sock' = [sock EXCEPT !.state = "handshaking"]
    /\ last' = Quiet("connect")
    /\ UNCHANGED <<now, events, runner, status, bridge, hist>>
    /\ UNCHANGED cli

Close ==
    /\ LET r == close(dtls)
           s1 == EndSocket(sock, r.ended)
       IN  /\ dtls' = r.c
           /\ sock' = s1
           /\ hist' = NoteClosed(hist, ControllerState, StateOf(r.c, s1), "close()")
    /\ last' = Quiet("close")
    /\ UNCHANGED <<now, events, runner, status, bridge>>
    /\ UNCHANGED cli

SendUpdate(updates) ==
    /\ LET r == sendUpdate(dtls, updates, now) IN
       /\ dtls' = r.c
       /\ hist' = NoteWrote(NoteCall(hist, ControllerState = "Open", updates, r.ret, now),
                            r.wrote)
       /\ last' = Turn("sendUpdate", updates, r.ret, r.wrote, SentGap(hist, r.ret, now))
    /\ UNCHANGED <<now, sock, events, runner, status, bridge>>
    /\ UNCHANGED cli

-----------------------------------------------------------------------------
(* The process: startProcess (cli.ts) with its receiver (ArtNetDmxSource)  *)
(* and one runner per hub.  Of a runner the process sees whether start()   *)
(* and close() have settled, whether it holds a controller, the frames it  *)
(* matched and the sendUpdate calls it made for frames.                    *)
Hubs == <<"a", "b">>

HubIds == {Hubs[i] : i \in 1..Len(Hubs)}

NewProcRunner(universe) ==
    [ artNetUniverse |-> universe,
      started |-> "pending",        \* the promise of start()
      dtlsController |-> "null",
      closed |-> "none",            \* the promise of close()
      dmxFramesMatched |-> 0,
      sendUpdateCalls |-> <<>> ]    \* the frames sendUpdate was called for

(* ArtNetDmxSource after start() (cli.ts line 235).                        *)
NewDmxSource == [controller |-> "bound", closed |-> "none"]

NewCli(universes) ==
    [ pc |-> "starting",            \* awaiting Promise.all of the starts
      dmxSource |-> NewDmxSource,
      runners |-> [h \in HubIds |-> NewProcRunner(universes[h])],
      dmxListener |-> FALSE,        \* dmxSource.on('dmx') registered
      shutdownHandler |-> FALSE,    \* process.on('SIGINT') registered
      received |-> <<>>,            \* frames the receiver got, numbered in order
      artnet |-> Some(NewArtNetStatus), \* RuntimeStatus: the receiver's entry
      snapshot |-> None,            \* the object the last snapshot() returned
      snapshotRead |-> None,        \*   and what it showed when it was returned
      store |-> [l \in 1..MaxLoads |-> [pc |-> "idle"]],
                                    \* ConfigStore: each load() call, its locals
      files |-> [config |-> None, backup |-> None, writes |-> <<>>],
                                    \* config.json, config.legacy.json, writeFile calls
      closeOrder |-> <<>>,          \* whose close() was initiated, in order
      exitCodes |-> <<>> ]          \* process.exit calls

(* handleDmx as the process sees it (hue-runner.ts lines 88-104).          *)
procHandleDmx_Reordered(r, frame) ==
    IF frame.universe # r.artNetUniverse THEN r
    ELSE IF r.dtlsController = "null"
    THEN [r EXCEPT !.dmxFramesMatched = @ + 1]
    ELSE [r EXCEPT !.dmxFramesMatched = @ + 1,
                   !.sendUpdateCalls = <<frame>> \o @]

procHandleDmx(r, frame) ==
    IF frame.universe # r.artNetUniverse THEN r
    ELSE IF r.dtlsController = "null"
    THEN [r EXCEPT !.dmxFramesMatched = @ + 1]
    ELSE [r EXCEPT !.dmxFramesMatched = @ + 1,
                   !.sendUpdateCalls = Append(@, frame)]

(* close() up to its first await (hue-runner.ts lines 114-119).            *)
procClose(r) == [r EXCEPT !.dtlsController = "null", !.closed = "pending"]

(* ArtNetDmxSource.close() up to its await (artnet.ts lines 32-38).        *)
dmxSourceClose(d) ==
    IF d.controller = "null" THEN [d EXCEPT !.closed = "settled"]
    ELSE [d EXCEPT !.controller = "null", !.closed = "pending"]

-----------------------------------------------------------------------------
(* One controller, driven directly.                                        *)
NewSocket == [state |-> "none", endCalls |-> 0, endPending |-> FALSE]

NewBridge(configs) == [configs |-> configs, startRequests |-> 0, stopRequests |-> 0]

DefaultHub ==
    [ id |-> "hub",
      entertainmentConfigurationId |-> ConfigId,
      artNetUniverse |-> 0,
      channels |-> << Channel(0, 1, "8bit"), Channel(1, 4, "8bit-dimmable") >> ]

Init ==
    /\ now = Base
    /\ dtls = NewController(ConfigId)
    /\ sock = NewSocket
    /\ events = <<>>
    /\ runner = NewRunner(DefaultHub)
    /\ status = NewHubStatus
    /\ bridge = NewBridge(<< [id |-> ConfigId, channelIds |-> <<0, 1>>] >>)
    /\ cli = NewCli([h \in HubIds |-> 0])
    /\ hist = NewHist
    /\ last = NoTurn

Next ==
    \/ Connect
    \/ Close
    \/ \E u \in UpdateInputs : SendUpdate(u)
    \/ SocketConnect
    \/ SocketClose
    \/ SocketError
    \/ EndCallback
    \/ KeepaliveTick
    \/ \E t \in TimePoints : Advance(t)
    \/ Rollover

Spec == Init /\ [][Next]_vars

-----------------------------------------------------------------------------
(* HueEntertainmentRunner.start(): one action per resumption.  Each HTTPS  *)
(* call made on the way either succeeds or rejects.                        *)
Err(kind, missing, extra) == [kind |-> kind, missing |-> missing, extra |-> extra]

Fail(rn, kind) == [rn EXCEPT !.pc = "failed", !.error = Some(Err(kind, <<>>, <<>>))]

(* start() up to the await of connectHueApi (lines 39-44).                 *)
Start ==
    /\ runner.pc = "new"
    /\ IF runner.hub.entertainmentConfigurationId = <<>>
       THEN /\ runner' = Fail(runner, "no_configuration_id")
            /\ UNCHANGED status
       ELSE /\ runner' = [runner EXCEPT !.pc = "connectHueApi"]
            /\ status' = setHubStarted(status, TRUE)
    /\ last' = Quiet("start")
    /\ UNCHANGED <<now, dtls, sock, events, bridge, hist>>
    /\ UNCHANGED cli

(* connectHueApi settles; listEntertainmentConfigurations is called.       *)
ConnectHueApiDone(ok) ==
    /\ runner.pc = "connectHueApi"
    /\ runner' = IF ok THEN [runner EXCEPT !.hueApi = "api", !.pc = "listConfigurations"]
                 ELSE Fail(runner, "http")
    /\ last' = Quiet("connectHueApiDone")
    /\ UNCHANGED <<now, dtls, sock, events, status, bridge, hist>>
    /\ UNCHANGED cli

(* The configuration of the hub's id among those the hub lists (line 47).  *)
FindConfig(configs, id) ==
    IF \E i \in 1..Len(configs) : configs[i].id = id
    THEN Some(configs[CHOOSE i \in 1..Len(configs) :
                        /\ configs[i].id = id
                        /\ \A j \in 1..(i - 1) : configs[j].id # id])
    ELSE None

(* listEntertainmentConfigurations settles: the channel ids are compared,  *)
(* the lights are built and getHueApplicationId is called (lines 46-67).   *)
ListConfigurationsDone(ok) ==
    /\ runner.pc = "listConfigurations"
    /\ LET cfg == FindConfig(bridge.configs, runner.hub.entertainmentConfigurationId)
           missing == Missing(runner.hub.channels, Get(cfg).channelIds)
           extra == Extra(runner.hub.channels, Get(cfg).channelIds)
       IN  runner' =
             IF ~ok THEN Fail(runner, "http")
             ELSE IF ~IsSome(cfg) THEN Fail(runner, "not_found")
             ELSE IF Len(missing) # 0 \/ Len(extra) # 0
             THEN [runner EXCEPT !.pc = "failed",
                                 !.error = Some(Err("mismatch", missing, extra))]
             ELSE [runner EXCEPT !.lights = BuildLights(runner.hub.channels),
                                 !.pc = "getHueApplicationId"]
    /\ last' = Quiet("listConfigurationsDone")
    /\ UNCHANGED <<now, dtls, sock, events, status, bridge, hist>>
    /\ UNCHANGED cli

(* getHueApplicationId resolves (it never rejects): the controller is      *)
(* constructed, assertUuid36 included, and the start request is issued     *)
(* (lines 67-71).                                                          *)
GetHueApplicationIdDone ==
    /\ runner.pc = "getHueApplicationId"
    /\ IF Len(runner.hub.entertainmentConfigurationId) # 36
       THEN /\ runner' = Fail(runner, "uuid")
            /\ UNCHANGED <<dtls, bridge>>
       ELSE /\ runner' = [runner EXCEPT !.dtlsController = "controller",
                                        !.pc = "startConfiguration"]
            /\ dtls' = NewController(runner.hub.entertainmentConfigurationId)
            /\ bridge' = [bridge EXCEPT !.startRequests = @ + 1]
    /\ last' = Quiet("getHueApplicationIdDone")
    /\ UNCHANGED <<now, sock, events, status, hist>>
    /\ UNCHANGED cli

StartConfigurationDone_NoSleep(ok) ==
    /\ runner.pc = "startConfiguration"
    /\ ok
    /\ runner' = [runner EXCEPT !.pc = "sleep", !.wakeAt = Some(now),
                                !.startReturnedAt = Some(now)]
    /\ status' = setStreamingEnabled(status, TRUE)
    /\ last' = Quiet("startConfigurationDone")
    /\ UNCHANGED <<now, dtls, sock, events, bridge, hist>>
    /\ UNCHANGED cli

(* startEntertainmentConfiguration settles; the 1000 ms sleep starts       *)
(* (lines 71-76).                                                          *)
StartConfigurationDone(ok) ==
    /\ runner.pc = "startConfiguration"
    /\ IF ok
       THEN /\ runner' = [runner EXCEPT !.pc = "sleep", !.wakeAt = Some(now + StartSleepMs),
                                        !.startReturnedAt = Some(now)]
            /\ status' = setStreamingEnabled(status, TRUE)
       ELSE /\ runner' = Fail(runner, "http")
            /\ UNCHANGED status
    /\ last' = Quiet("startConfigurationDone")
    /\ UNCHANGED <<now, dtls, sock, events, bridge, hist>>
    /\ UNCHANGED cli

(* The sleep's timer fires: connect() is called and, once it has returned, *)
(* the listeners are registered (lines 79-85).  connect() may throw, and   *)
(* it is called on null if close() took the controller meanwhile.          *)
SleepDone(ok) ==
    /\ runner.pc = "sleep"
    /\ now = Get(runner.wakeAt)
    /\ IF runner.dtlsController = "null"
       THEN /\ runner' = [Fail(runner, "type_error") EXCEPT
                            !.wakeAt = None, !.startReturnedAt = None]
            /\ UNCHANGED <<dtls, sock, hist>>
       ELSE IF ~ok
       THEN /\ runner' = [Fail(runner, "dtls_connect") EXCEPT
                            !.wakeAt = None, !.startReturnedAt = None]
            /\ UNCHANGED <<dtls, sock, hist>>
       ELSE /\ runner' = [runner EXCEPT !.pc = "started", !.wakeAt = None,
                                        !.startReturnedAt = None,
                                        !.listening = TRUE]
            /\ dtls' = connect(dtls, now)
            /\ sock' = [sock EXCEPT !.state = "handshaking"]
            /\ hist' = [hist EXCEPT !.sleptFor = Some(now - Get(runner.startReturnedAt))]
    /\ last' = Quiet("sleepDone")
    /\ UNCHANGED <<now, events, status, bridge>>
    /\ UNCHANGED cli

-----------------------------------------------------------------------------
(* The runner's other entry points.                                        *)

(* The outcomes counted so far.                                            *)
Calls(st) == st.updatePacketsSent + st.updatePacketsDropped + st.updatePacketsThrottled

(* The receiver hands a frame to the runner.                               *)
HandleDmx(dmx) ==
    /\ \/ dmx.universe # runner.hub.artNetUniverse
       \/ /\ status.dmxFramesMatched < MaxCalls
          /\ Calls(status) < MaxCalls
    /\ LET r == handleDmx(runner, dtls, status, dmx, now) IN
       /\ dtls' = r.dtls
       /\ status' = r.status
       /\ hist' = NoteWrote(hist, r.wrote)
       /\ last' = Turn("handleDmx", dmx, r.ret, r.wrote, None)
    /\ UNCHANGED <<now, sock, events, runner, bridge>>
    /\ UNCHANGED cli

(* The web UI's runtime command.                                           *)
SendSolidColor(rgb16) ==
    /\ Calls(status) < MaxCalls
    /\ LET r == sendSolidColor(runner, dtls, status, rgb16, now) IN
       /\ dtls' = r.dtls
       /\ status' = r.status
       /\ hist' = NoteWrote(hist, r.wrote)
       /\ last' = Turn("sendSolidColor", rgb16, r.ret, r.wrote, None)
    /\ UNCHANGED <<now, sock, events, runner, bridge>>
    /\ UNCHANGED cli

RunnerClose_StopAtOnce ==
    /\ LET hasDtls == runner.dtlsController # "null"
           hasApi == runner.hueApi # "null"
                     /\ runner.hub.entertainmentConfigurationId # <<>>
           r == IF hasDtls THEN close(dtls) ELSE [c |-> dtls, ended |-> FALSE]
           s1 == EndSocket(sock, r.ended)
       IN  /\ dtls' = r.c
           /\ sock' = s1
           /\ hist' = NoteClosed(hist, ControllerState, StateOf(r.c, s1), "close()")
           /\ runner' = [runner EXCEPT
                  !.dtlsController = "null",
                  !.hueApi = "null",
                  !.closeDtls = IF ~hasDtls THEN @
                                ELSE IF r.ended THEN "pending" ELSE "done",
                  !.closeApi = IF ~hasApi THEN @ ELSE "stopRequested"]
           /\ bridge' = IF hasApi THEN IssueStop(bridge) ELSE bridge
    /\ last' = Quiet("runnerClose")
    /\ UNCHANGED <<now, events, status>>
    /\ UNCHANGED cli

RunnerClose_KeepsHandles ==
    /\ LET hasDtls == runner.dtlsController # "null"
           hasApi == runner.hueApi # "null"
                     /\ runner.hub.entertainmentConfigurationId # <<>>
           r == IF hasDtls THEN close(dtls) ELSE [c |-> dtls, ended |-> FALSE]
           s1 == EndSocket(sock, r.ended)
       IN  /\ dtls' = r.c
           /\ sock' = s1
           /\ hist' = NoteClosed(hist, ControllerState, StateOf(r.c, s1), "close()")
           /\ runner' = [runner EXCEPT
                  !.closeDtls = IF ~hasDtls THEN @
                                ELSE IF r.ended THEN "pending" ELSE "done",
                  !.closeApi = IF ~hasApi THEN @
                               ELSE IF r.ended THEN "waitDtls" ELSE "stopRequested"]
           /\ bridge' = IF hasApi /\ ~r.ended THEN IssueStop(bridge) ELSE bridge
    /\ last' = Quiet("runnerClose")
    /\ UNCHANGED <<now, events, status>>
    /\ UNCHANGED cli

(* close(): the controller and the API handle are taken (lines 114-117);   *)
(* the controller, if any, is closed and awaited (line 119); then, if the  *)
(* call took the API handle, the stop request is issued (lines 120-121).   *)
RunnerClose ==
    /\ LET hasDtls == runner.dtlsController # "null"
           hasApi == runner.hueApi # "null"
                     /\ runner.hub.entertainmentConfigurationId # <<>>
           r == IF hasDtls THEN close(dtls) ELSE [c |-> dtls, ended |-> FALSE]
           s1 == EndSocket(sock, r.ended)
       IN  /\ dtls' = r.c
           /\ sock' = s1
           /\ hist' = NoteClosed(hist, ControllerState, StateOf(r.c, s1), "close()")
           /\ runner' = [runner EXCEPT
                  !.dtlsController = "null",
                  !.hueApi = "null",
                  !.closeDtls = IF ~hasDtls THEN @
                                ELSE IF r.ended THEN "pending" ELSE "done",
                  !.closeApi = IF ~hasApi THEN @
                               ELSE IF r.ended THEN "waitDtls" ELSE "stopRequested"]
           /\ bridge' = IF hasApi /\ ~r.ended THEN IssueStop(bridge) ELSE bridge
    /\ last' = Quiet("runnerClose")
    /\ UNCHANGED <<now, events, status>>
    /\ UNCHANGED cli

(* stopEntertainmentConfiguration settles; close() returns or rejects.     *)
StopConfigurationDone(ok) ==
    /\ runner.closeApi = "stopRequested"
    /\ runner' = [runner EXCEPT !.closeApi = IF ok THEN "done" ELSE "failed"]
    /\ last' = Quiet("stopConfigurationDone")
    /\ UNCHANGED <<now, dtls, sock, events, status, bridge, hist>>
    /\ UNCHANGED cli

-----------------------------------------------------------------------------
(* One runner and its controller.                                          *)
HubConfigs ==
    { [ id |-> "hub",
        entertainmentConfigurationId |-> cid,
        artNetUniverse |-> 0,
        channels |-> chs ] : cid \in {ConfigId, ShortId, <<>>}, chs \in ChannelLists }

BridgeConfigs ==
    { << >> } \cup
    { << [id |-> cid, channelIds |-> ids] >> : cid \in {ConfigId, ShortId},
                                                ids \in RemoteChannelIds }

RunnerInit ==
    /\ now = Base
    /\ dtls = NewController(ConfigId)
    /\ sock = NewSocket
    /\ events = <<>>
    /\ runner \in {NewRunner(h) : h \in HubConfigs}
    /\ status = NewHubStatus
    /\ bridge \in {NewBridge(cs) : cs \in BridgeConfigs}
    /\ cli = NewCli([h \in HubIds |-> 0])
    /\ hist = NewHist
    /\ last = NoTurn

RunnerNext ==
    \/ Start
    \/ \E ok \in BOOLEAN : ConnectHueApiDone(ok)
    \/ \E ok \in BOOLEAN : ListConfigurationsDone(ok)
    \/ GetHueApplicationIdDone
    \/ \E ok \in BOOLEAN : StartConfigurationDone(ok)
    \/ \E ok \in BOOLEAN : SleepDone(ok)
    \/ \E dmx \in Frames : HandleDmx(dmx)
    \/ \E rgb16 \in SolidColors : SendSolidColor(rgb16)
    \/ RunnerClose
    \/ \E ok \in BOOLEAN : StopConfigurationDone(ok)
    \/ SocketConnect
    \/ SocketClose
    \/ SocketError
    \/ EndCallback
    \/ KeepaliveTick
    \/ \E t \in RunnerTimePoints : Advance(t)
    \/ Rollover

RunnerSpec == RunnerInit /\ [][RunnerNext]_vars

-----------------------------------------------------------------------------
(* Properties of the controller (checked under Spec).                      *)

Count(seq, x) == Cardinality({i \in 1..Len(seq) : seq[i] = x})

Index(seq, x) == CHOOSE i \in 1..Len(seq) : seq[i] = x

Emitted(x) == \E i \in 1..Len(events) : events[i] = x

(* C1: a sendUpdate call that returns sent comes at least minIntervalMs    *)
(* (40 ms) after the previous call that returned sent; time being          *)
(* monotonic, so does it after every earlier one.                          *)
C1_SentCallsMinIntervalApart ==
    (last.ret = "sent" /\ IsSome(last.gap)) => Get(last.gap) >= minIntervalMs

C1_Witness ==
    /\ last.op = "sendUpdate"
    /\ last.ret = "sent"
    /\ last.gap = Some(minIntervalMs)

(* C2: sendUpdate returns not_open exactly when the controller is not      *)
(* Open; while Open it returns sent or throttled; it never returns skipped.*)
C2_NotOpenIffNotOpen ==
    last.op = "sendUpdate" =>
        /\ (last.ret = "not_open") <=> (ControllerState # "Open")
        /\ ControllerState = "Open" => last.ret \in {"sent", "throttled"}
        /\ last.ret # "skipped"

C2_Witness ==
    /\ last.op = "sendUpdate"
    /\ last.ret = "not_open"
    /\ ControllerState = "Closed"
    /\ IsSome(hist.lastSentAt)

(* C3: a keepalive tick on an Open controller that has a last-known update *)
(* writes exactly one datagram, carrying that update, if the last          *)
(* sendUpdate call is more than 2000 ms old, and writes nothing if that    *)
(* call is at most 2000 ms old.                                            *)
C3_KeepaliveResendsWhenStale ==
    (last.op = "keepalive" /\ ControllerState = "Open" /\ IsSome(hist.lastPassed)) =>
        IF now - Get(hist.lastCallAt) > KeepaliveStaleMs
        THEN /\ Len(last.wrote) = 1
             /\ dtls.lastUpdate = hist.lastPassed
             /\ last.wrote[1] = Message(dtls.entertainmentConfigurationId, Get(dtls.lastUpdate))
        ELSE last.wrote = <<>>

C3_Witness ==
    /\ last.op = "keepalive"
    /\ ControllerState = "Open"
    /\ Len(last.wrote) = 1
    /\ now - Get(hist.lastCallAt) >= KeepaliveStaleMs + KeepaliveIntervalMs

(* C4: a sendUpdate call that returns throttled has replaced the           *)
(* last-known update and refreshed its timestamp, and a keepalive resend   *)
(* carries the update most recently passed to sendUpdate while Open.       *)
C4_ThrottledCallRefreshesCache ==
    /\ (last.op = "sendUpdate" /\ last.ret = "throttled") =>
           /\ dtls.lastUpdate = Some(last.arg)
           /\ dtls.lastUpdateTimestamp = Some(now)
    /\ (last.op = "keepalive" /\ last.wrote # <<>>) =>
           last.wrote = <<Message(dtls.entertainmentConfigurationId, Get(hist.lastPassed))>>

C4_Witness ==
    /\ last.op = "keepalive"
    /\ last.wrote # <<>>
    /\ hist.lastRet = "throttled"
    /\ IsSome(hist.firstDatagram)
    /\ last.wrote[1] # Get(hist.firstDatagram)

(* C5: the controller's state moves only Idle -> Handshaking -> Open ->    *)
(* Closed or Handshaking -> Closed, so a controller that has left Open     *)
(* never is Open again, and connected is emitted at most once.             *)
LifecycleEdges ==
    { <<"Idle", "Handshaking">>, <<"Handshaking", "Open">>,
      <<"Handshaking", "Closed">>, <<"Open", "Closed">> }

C6_CloseEmittedOnEveryTerminalEdge ==
    /\ (ControllerState = "Closed" /\ ~sock.endPending) => Emitted("close")
    /\ hist.closedBy = "error" =>
           /\ Emitted("error")
           /\ Emitted("close") => Index(events, "error") < Index(events, "close")

(* C7: whatever close() calls, socket close and socket error events occur, *)
(* the socket is ended at most once and close is emitted at most once.     *)
C7_CloseIdempotent ==
    /\ sock.endCalls <= 1
    /\ Count(events, "close") <= 1

C7_Witness ==
    /\ last.op = "close"
    /\ sock.endCalls = 1
    /\ Emitted("close")
    /\ Emitted("error")

-----------------------------------------------------------------------------
(* Properties of the runner's start() (checked under RunnerSpec).          *)

(* The channel ids of the hub's mappings, and those the hub reports for    *)
(* the selected configuration.                                             *)
ConfiguredChannelIds ==
    {runner.hub.channels[i].channelId : i \in 1..Len(runner.hub.channels)}

RemoteConfiguration == FindConfig(bridge.configs, runner.hub.entertainmentConfigurationId)

RemoteChannelIdSet ==
    LET ids == Get(RemoteConfiguration).channelIds IN {ids[i] : i \in 1..Len(ids)}

ChannelIdsDiffer ==
    IsSome(RemoteConfiguration) /\ ConfiguredChannelIds # RemoteChannelIdSet

ChannelIdsVerified ==
    IsSome(RemoteConfiguration) /\ ConfiguredChannelIds = RemoteChannelIdSet

Elements(seq) == {seq[i] : i \in 1..Len(seq)}

(* C8: when the mapped channel ids differ from the ids the hub reports,    *)
(* start() gets no further than the comparison: once the list of           *)
(* configurations has arrived it has failed, with an error that names      *)
(* exactly the missing ids (reported, not mapped) and the extra ids        *)
(* (mapped, not reported); no start request is issued and connect() is     *)
(* never called.                                                           *)
C8_MismatchFailsBeforeStartRequest ==
    ChannelIdsDiffer =>
        /\ runner.pc \in {"new", "connectHueApi", "listConfigurations", "failed"}
        /\ bridge.startRequests = 0
        /\ sock.state = "none"
        /\ runner.dtlsController = "null"
        /\ (runner.pc = "failed" /\ Get(runner.error).kind # "http") =>
              /\ Get(runner.error).kind = "mismatch"
              /\ Elements(Get(runner.error).missing)
                    = RemoteChannelIdSet \ ConfiguredChannelIds
              /\ Elements(Get(runner.error).extra)
                    = ConfiguredChannelIds \ RemoteChannelIdSet

C8_Witness ==
    /\ runner.pc = "failed"
    /\ Get(runner.error) = Err("mismatch", <<3>>, <<2>>)
    /\ bridge.startRequests = 0
    /\ sock.state = "none"

(* C9: connect() has been called only if the channel ids were verified     *)
(* equal, the start request was issued and succeeded, and at least         *)
(* StartSleepMs (1000 ms) passed between its return and the call; and a    *)
(* datagram has been written only if connect() was called, hence only for  *)
(* a hub whose channel ids were verified equal.                            *)
C9_ConnectOnlyAfterCheckStartAndSleep ==
    /\ sock.state # "none" =>
          /\ ChannelIdsVerified
          /\ bridge.startRequests = 1
          /\ status.streamingEnabled
          /\ IsSome(hist.sleptFor)
          /\ Get(hist.sleptFor) >= StartSleepMs
    /\ IsSome(hist.firstDatagram) => (sock.state # "none" /\ ChannelIdsVerified)

C9_Witness ==
    /\ hist.sleptFor = Some(StartSleepMs)
    /\ IsSome(hist.firstDatagram)
    /\ last.op = "handleDmx"
    /\ last.ret = "sent"

(* C10: in the turn in which the controller enters Open the runner's       *)
(* connected listener runs (the status shows the connection) and, the      *)
(* runner still holding the controller, writes one datagram setting every  *)
(* mapped channel to (0, 0, 0); whatever frames or solid colours came      *)
(* before, the first datagram of the session is that one.                  *)
C10_FirstDatagramIsBlack ==
    LET black == Message(dtls.entertainmentConfigurationId, BlackUpdates(runner.lights)) IN
    /\ last.op = "connected" =>
          /\ ControllerState = "Open"
          /\ status.dtlsConnected
          /\ runner.dtlsController # "null" => last.wrote = <<black>>
    /\ IsSome(hist.firstDatagram) => Get(hist.firstDatagram) = black
    /\ (last.op \in {"handleDmx", "sendSolidColor"} /\ last.wrote # <<>>) =>
          (Emitted("connected") /\ status.updatePacketsSent >= 2)

C10_Witness ==
    /\ last.op = "connected"
    /\ last.wrote = <<Message(dtls.entertainmentConfigurationId, BlackUpdates(runner.lights))>>
    /\ Len(runner.lights) = 2
    /\ status.dmxFramesMatched > 0
    /\ status.updatePacketsDropped = MaxCalls

-----------------------------------------------------------------------------
(* Properties of the runner's exit paths (checked under RunnerSpec).       *)

(* C11: once start() has failed after its start request succeeded, the    *)
(* controller it constructed has been closed and the start request has     *)
(* been followed by a stop request.                                        *)
C11_FailedStartReleasesSession ==
    (runner.pc = "failed" /\ status.streamingEnabled) =>
        /\ runner.dtlsController = "null"
        /\ bridge.stopRequests >= bridge.startRequests

(* The runner under the scheduling Node.js guarantees: time passes, armed  *)
(* timers fire, and a pending step of start() or a pending stop request    *)
(* settles one way or the other.  Nothing obliges the environment to send  *)
(* frames, signals or socket events, nor the socket to call back.          *)
StartStep ==
    \/ Start
    \/ \E ok \in BOOLEAN : ConnectHueApiDone(ok)
    \/ \E ok \in BOOLEAN : ListConfigurationsDone(ok)
    \/ GetHueApplicationIdDone
    \/ \E ok \in BOOLEAN : StartConfigurationDone(ok)
    \/ \E ok \in BOOLEAN : SleepDone(ok)

FairRunnerSpec ==
    /\ RunnerSpec
    /\ WF_vars(Rollover)
    /\ WF_vars(KeepaliveTick)
    /\ WF_vars(StartStep)
    /\ WF_vars(\E ok \in BOOLEAN : StopConfigurationDone(ok))

(* The controller was Open and the peer's close or a socket error closed   *)
(* it.                                                                     *)
TransportLost == Emitted("connected") /\ hist.closedBy \in {"peer", "error"}

(* C12: after a transport loss the runner eventually issues the stop       *)
(* request.                                                                *)
C12_TransportLossReleasesSession == TransportLost ~> (bridge.stopRequests >= 1)

(* C13: a stop request is issued only in a turn of runner close() that   *)
(* finds no controller to close or whose close() of the controller returns *)
(* at once (nothing to await), or in the turn in which socket.end calls    *)
(* back and the close() that runner close() awaits completes; never in the *)
(* turn that starts a close() of the controller which is still pending.    *)
C13_StopOnlyAfterDtlsClose ==
    [][bridge'.stopRequests # bridge.stopRequests =>
          \/ /\ last'.op = "runnerClose"
             /\ sock'.endCalls = sock.endCalls
             /\ runner'.closeDtls # "pending"
          \/ /\ last'.op = "endCallback"
             /\ sock.endPending /\ ~sock'.endPending
             /\ runner.closeDtls = "pending" /\ runner'.closeDtls = "done"]_vars

C13_Witness ==
    /\ bridge.stopRequests = 1
    /\ runner.closeDtls = "done"
    /\ sock.endCalls = 1
    /\ hist.closedBy = "close()"
    /\ Emitted("close")

-----------------------------------------------------------------------------
(* The process (cli.ts, startProcess, run without the web UI): every       *)
(* action is one turn of the event loop.                                   *)
procVars == <<now, dtls, sock, events, runner, status, bridge, hist, last>>

Settled(p) == p \in {"fulfilled", "rejected"}

AllStartsFulfilled(rs) == \A h \in HubIds : rs[h].started = "fulfilled"

AllClosesSettled(c) ==
    /\ \A h \in HubIds : Settled(c.runners[h].closed)
    /\ Settled(c.dmxSource.closed)

(* start() of hub h settles.  Promise.all (line 238) rejects with the      *)
(* first rejection, and startProcess with it; when every start() has       *)
(* fulfilled the frame subscription is wired (lines 244-248) and the       *)
(* shutdown handler installed (lines 266-274).                             *)
ProcStartSettles(h, ok) ==
    /\ cli.pc \in {"starting", "rejected"}
    /\ cli.runners[h].started = "pending"
    /\ LET rs == [cli.runners EXCEPT
                    ![h].started = IF ok THEN "fulfilled" ELSE "rejected",
                    ![h].dtlsController = IF ok THEN "controller" ELSE @]
           wired == cli.pc = "starting" /\ AllStartsFulfilled(rs)
       IN  cli' = [cli EXCEPT
                    !.runners = rs,
                    !.pc = IF wired THEN "running"
                           ELSE IF ~ok THEN "rejected" ELSE @,
                    !.dmxListener = wired,
                    !.shutdownHandler = wired]
    /\ UNCHANGED procVars

(* The rejection of startProcess reaches handler.run() (line 376), which   *)
(* nothing catches: Node may end the process with code 1.                  *)
UnhandledRejection ==
    /\ cli.pc = "rejected"
    /\ cli' = [cli EXCEPT !.pc = "crashed", !.exitCodes = Append(@, 1)]
    /\ UNCHANGED procVars

(* The receiver gets a frame of universe u (artnet.ts lines 26-29) and     *)
(* the subscription, if wired, hands it to every runner in turn.           *)
ProcDmx(u) ==
    /\ cli.pc \in {"starting", "rejected", "running", "closing"}
    /\ cli.dmxSource.controller = "bound"
    /\ Len(cli.received) < MaxDmx
    /\ LET frame == [universe |-> u, seq |-> Len(cli.received) + 1] IN
       cli' = [cli EXCEPT
                !.received = Append(@, frame),
                !.artnet = onDmxFrame(@, u),
                !.runners = IF cli.dmxListener
                            THEN [h \in HubIds |-> procHandleDmx(@[h], frame)]
                            ELSE @]
    /\ UNCHANGED procVars

(* SIGINT.  With the handler installed (lines 266-273): the handler is     *)
(* removed, close() of every runner and then of the receiver is called,    *)
(* and the exit waits for all of them.  Without it the signal ends the     *)
(* process.                                                                *)
Sigint ==
    /\ cli.pc \in {"starting", "rejected", "running", "closing"}
    /\ cli' = IF cli.shutdownHandler
              THEN [cli EXCEPT
                      !.pc = "closing",
                      !.shutdownHandler = FALSE,
                      !.runners = [h \in HubIds |-> procClose(@[h])],
                      !.dmxSource = dmxSourceClose(@),
                      !.closeOrder = @ \o Hubs \o <<"receiver">>]
              ELSE [cli EXCEPT !.pc = "killed"]
    /\ UNCHANGED procVars

ExitWhenAllSettled_FirstSettled(c) ==
    [c EXCEPT !.pc = "exited", !.exitCodes = Append(@, 0)]

(* Promise.all(...).then(() => process.exit(0)), lines 269-272.            *)
ExitWhenAllSettled(c) ==
    IF AllClosesSettled(c)
    THEN [c EXCEPT !.pc = "exited", !.exitCodes = Append(@, 0)]
    ELSE c

(* close() of hub h settles; a rejection is swallowed (line 270).          *)
ProcCloseSettles(h, ok) ==
    /\ cli.pc = "closing"
    /\ cli.runners[h].closed = "pending"
    /\ cli' = ExitWhenAllSettled(
                [cli EXCEPT !.runners[h].closed = IF ok THEN "fulfilled" ELSE "rejected"])
    /\ UNCHANGED procVars

(* close() of the receiver settles (line 271).                             *)
DmxSourceCloseSettles(ok) ==
    /\ cli.pc = "closing"
    /\ cli.dmxSource.closed = "pending"
    /\ cli' = ExitWhenAllSettled(
                [cli EXCEPT !.dmxSource.closed = IF ok THEN "fulfilled" ELSE "rejected"])
    /\ UNCHANGED procVars

CliInit ==
    /\ now = Base
    /\ dtls = NewController(ConfigId)
    /\ sock = NewSocket
    /\ events = <<>>
    /\ runner = NewRunner(DefaultHub)
    /\ status = NewHubStatus
    /\ bridge = NewBridge(<< [id |-> ConfigId, channelIds |-> <<0, 1>>] >>)
    /\ cli \in {NewCli(u) : u \in [HubIds -> FrameUniverses]}
    /\ hist = NewHist
    /\ last = NoTurn

CliNext ==
    \/ \E h \in HubIds, ok \in BOOLEAN : ProcStartSettles(h, ok)
    \/ UnhandledRejection
    \/ \E u \in FrameUniverses : ProcDmx(u)
    \/ Sigint
    \/ \E h \in HubIds, ok \in BOOLEAN : ProcCloseSettles(h, ok)
    \/ \E ok \in BOOLEAN : DmxSourceCloseSettles(ok)

CliSpec == CliInit /\ [][CliNext]_vars

-----------------------------------------------------------------------------
(* Properties of the process (checked under CliSpec).                      *)

(* C14: once every start() has settled, with the process alive and no      *)
(* signal received, the hubs whose start() fulfilled are served: the frame *)
(* subscription is wired and the shutdown handler installed, whether or    *)
(* not another hub's start() rejected.                                     *)
C14_OtherHubsProceed ==
    ( /\ cli.pc \in {"starting", "rejected", "running"}
      /\ \A h \in HubIds : Settled(cli.runners[h].started)
      /\ \E h \in HubIds : cli.runners[h].started = "fulfilled" )
    => (cli.dmxListener /\ cli.shutdownHandler)

(* The process under the scheduling Node.js guarantees when one hub is     *)
(* slow: pending starts settle, and so do the close() of the receiver and  *)
(* of every hub but SlowHub, whose socket.end callback or stop request may *)
(* never come.                                                             *)
SlowHub == "b"

FairCliSpec ==
    /\ CliSpec
    /\ WF_vars(\E h \in HubIds, ok \in BOOLEAN : ProcStartSettles(h, ok))
    /\ WF_vars(\E ok \in BOOLEAN : DmxSourceCloseSettles(ok))
    /\ \A h \in HubIds \ {SlowHub} : WF_vars(\E ok \in BOOLEAN : ProcCloseSettles(h, ok))

(* C15: after the termination signal has been handled the process          *)
(* eventually ends, even if the close() of one hub never settles.          *)
C15_ExitDespiteSlowHub ==
    (cli.pc = "closing") ~> (cli.pc \in {"exited", "killed"})

(* C16: once the shutdown handler has run, close() of every runner and of  *)
(* the receiver has been started; the process calls exit(0) at most once,  *)
(* and only when every one of them has settled; and when they all have     *)
(* settled, fulfilled or rejected, it has exited with code 0 (unless a     *)
(* second signal, which the removed handler no longer receives, ended it). *)
C16_ExitAfterAllCloseSettle ==
    /\ cli.closeOrder # <<>> =>
          /\ \A h \in HubIds : cli.runners[h].closed # "none"
          /\ cli.dmxSource.closed # "none"
    /\ Count(cli.exitCodes, 0) <= 1
    /\ Count(cli.exitCodes, 0) = 1 => (cli.pc = "exited" /\ AllClosesSettled(cli))
    /\ (AllClosesSettled(cli) /\ cli.pc # "killed") =>
          (cli.pc = "exited" /\ cli.exitCodes = <<0>>)

C16_Witness ==
    /\ cli.pc = "exited"
    /\ cli.exitCodes = <<0>>
    /\ cli.runners["a"].closed = "rejected"
    /\ cli.runners["b"].closed = "fulfilled"
    /\ cli.dmxSource.closed = "rejected"

(* C17: of the close() calls the shutdown handler makes, the first is the  *)
(* receiver's: no runner's close() is initiated before it.                 *)
C17_ReceiverClosedFirst ==
    cli.closeOrder # <<>> => cli.closeOrder[1] = "receiver"

-----------------------------------------------------------------------------
(* Properties of the runner's frame handling (checked under RunnerSpec).   *)

(* C18: every handleDmx call with a frame of the hub's universe adds one   *)
(* to dmxFramesMatched and one to exactly one of updatePacketsSent,        *)
(* updatePacketsThrottled and updatePacketsDropped.                        *)
C18_MatchedFrameCountsOneOutcome ==
    [][(last'.op = "handleDmx" /\ last'.arg.universe = runner.hub.artNetUniverse) =>
          /\ status'.dmxFramesMatched = status.dmxFramesMatched + 1
          /\ Calls(status') = Calls(status) + 1]_vars

(* C19: a frame whose universe differs from the hub's artNetUniverse is    *)
(* ignored by the runner: the handleDmx turn leaves the hub's counters and *)
(* light values, the controller's last-known update cache and throttle     *)
(* timestamp, and the socket as they were, and writes no datagram.         *)
C19_NonMatchingFrameIgnored ==
    [][(last'.op = "handleDmx"
        /\ last'.arg.universe # runner.hub.artNetUniverse)
       => /\ status' = status
          /\ dtls' = dtls
          /\ sock' = sock
          /\ last'.wrote = <<>>]_vars

(* A non-matching frame has arrived at a runner whose controller is Open   *)
(* and has already recorded light values and an update.                    *)
C19_Witness ==
    /\ last.op = "handleDmx"
    /\ last.arg.universe # runner.hub.artNetUniverse
    /\ runner.dtlsController # "null"
    /\ ControllerState = "Open"
    /\ IsSome(dtls.lastUpdate)
    /\ DOMAIN status.lights # {}
    /\ status.dmxFramesMatched >= 1

-----------------------------------------------------------------------------
(* Properties of the process's frame delivery (checked under CliSpec).     *)

(* C20: within one hub, the sendUpdate calls made for frames are in the    *)
(* order in which the receiver got the matching frames: every call is for  *)
(* a received frame of the hub's universe, and no call comes before the    *)
(* call for an earlier frame.                                              *)
C20_UpdatesInReceiveOrder ==
    \A h \in HubIds :
        LET calls == cli.runners[h].sendUpdateCalls IN
        /\ \A i \in 1..Len(calls) :
              /\ calls[i].seq \in 1..Len(cli.received)
              /\ cli.received[calls[i].seq] = calls[i]
              /\ calls[i].universe = cli.runners[h].artNetUniverse
        /\ \A i, j \in 1..Len(calls) : i < j => calls[i].seq < calls[j].seq

(* A hub has passed two frames to its controller, with a frame of another  *)
(* universe received in between.                                           *)
C20_Witness ==
    \E h \in HubIds :
        LET calls == cli.runners[h].sendUpdateCalls IN
        /\ Len(calls) >= 2
        /\ calls[2].seq > calls[1].seq + 1

-----------------------------------------------------------------------------
(* Properties of the keepalive (checked under Spec).                       *)

(* C21: on an Open controller whose last sendUpdate call returned sent at  *)
(* t0 and was followed by no further call, a keepalive tick at exactly     *)
(* t0 + KeepaliveStaleMs (2000 ms) writes one datagram, byte for byte the  *)
(* one of the update sent at t0.                                           *)
C21_TickAtStaleBoundaryResends ==
    [][(/\ last'.op = "keepalive"
        /\ ControllerState = "Open"
        /\ hist.lastRet = "sent"
        /\ hist.lastCallAt = Some(now - KeepaliveStaleMs))
       => last'.wrote = << Message(dtls.entertainmentConfigurationId,
                                   Get(hist.lastPassed)) >>]_vars

(* C22: the keepalive timer does not fire once the controller has left     *)
(* Open (by close(), peer close or error): no keepalive tick is taken in a *)
(* state where the controller was Open before and is not Open any more.    *)
C22_NoTickAfterLeavingOpen ==
    [][last'.op = "keepalive"
       => ~(Emitted("connected") /\ ControllerState # "Open")]_vars

-----------------------------------------------------------------------------
(* The encoder alone: sendUpdatePacket called on an Open controller, for   *)
(* configuration ids of 36 ASCII characters and lists of up to MaxUpdates  *)
(* updates.                                                                *)

(* A second 36-character id, with hexadecimal letters.                     *)
HexId == [i \in 1..36 |-> IF i \in {9, 14, 19, 24} THEN 45 ELSE 97 + (i % 6)]

EncodeIds == {ConfigId, HexId}

EncodeColors == { <<0, 0, 0>>, <<65535, 0, 4660>>, <<255, 256, 33024>> }

EncodeChannelIds == {0, 255, 258}

EncodeUpdates ==
    UNION { [1..n -> [channelId : EncodeChannelIds, color : EncodeColors]]
            : n \in 0..MaxUpdates }

(* The controller of id after connect() and the socket's 'connect'.        *)
EncodeInit ==
    /\ now = Base
    /\ dtls \in { [connect(NewController(id), Base) EXCEPT !.opened = TRUE]
                  : id \in EncodeIds }
    /\ sock = [NewSocket EXCEPT !.state = "connected"]
    /\ events = <<"connected">>
    /\ runner = NewRunner(DefaultHub)
    /\ status = NewHubStatus
    /\ bridge = NewBridge(<< [id |-> ConfigId, channelIds |-> <<0, 1>>] >>)
    /\ cli = NewCli([h \in HubIds |-> 0])
    /\ hist = NewHist
    /\ last = Quiet("connected")

(* sendUpdatePacket(updates).                                              *)
SendUpdatePacket(updates) ==
    /\ last' = Turn("sendUpdatePacket", updates, "none",
                    sendUpdatePacket(dtls, updates).wrote, None)
    /\ UNCHANGED <<now, dtls, sock, events, runner, status, bridge, hist>>
    /\ UNCHANGED cli

EncodeNext == \E updates \in EncodeUpdates : SendUpdatePacket(updates)

EncodeSpec == EncodeInit /\ [][EncodeNext]_vars

(* Properties of the encoder (checked under EncodeSpec).                    *)

(* Bytes a..b of message m, counted from 0 as in the packet layout.        *)
Bytes(m, a, b) == SubSeq(m, a + 1, b + 1)

(* C23: for a configuration id of 36 ASCII characters and a list of N      *)
(* updates with components in 0..65535, the packet written has length      *)
(* 52 + 7N; bytes 0..8 are ASCII "HueStream", bytes 9..15 are              *)
(* 02 00 00 00 00 00 00, bytes 16..51 are the id, and the i-th 7-byte      *)
(* record is the i-th update: the channel id's low 8 bits, then R, G, B    *)
(* as 16-bit big-endian.                                                   *)
C23_PacketLayout ==
    last.op = "sendUpdatePacket" =>
        /\ Len(last.wrote) = 1
        /\ LET m == last.wrote[1]
               updates == last.arg
               N == Len(updates)
           IN  /\ Len(m) = 52 + 7 * N
               /\ Bytes(m, 0, 8) = <<72, 117, 101, 83, 116, 114, 101, 97, 109>>
               /\ Bytes(m, 9, 15) = <<2, 0, 0, 0, 0, 0, 0>>
               /\ Bytes(m, 16, 51) = dtls.entertainmentConfigurationId
               /\ \A i \in 1..N :
                     LET o == 52 + 7 * (i - 1)
                         c == updates[i].color
                     IN  /\ m[o + 1] = updates[i].channelId % 256
                         /\ \A k \in 1..3 :
                               /\ m[o + 2 * k] * 256 + m[o + 2 * k + 1] = c[k]
                               /\ m[o + 2 * k] \in 0..255
                               /\ m[o + 2 * k + 1] \in 0..255

(* A packet of two updates was written: the first with a channel id above  *)
(* 255, the second with components whose two bytes differ.                 *)
C23_Witness ==
    /\ last.op = "sendUpdatePacket"
    /\ Len(last.arg) = 2
    /\ last.arg[1].channelId = 258
    /\ last.arg[2].color = <<65535, 0, 4660>>
    /\ dtls.entertainmentConfigurationId = HexId
    /\ Len(last.wrote[1]) = 66

-----------------------------------------------------------------------------
(* One runner of a hub configuration that the startup checks let through.  *)
(* RepeatedIdHub maps one channel id twice: the id set equals the one the  *)
(* hub reports, so the comparison of start() (lines 52-59) finds nothing   *)
(* missing and nothing extra.  NotUuidHub has a configuration id of 36     *)
(* characters that is no UUID, which the hub is taken to list.             *)
(* OutOfRangeHub maps a three-slot channel at slot 511.  The               *)
(* validation of startProcess (cli.ts lines 212-230) looks at credentials, *)
(* the presence of a configuration id and of channels, and the modes only. *)
RepeatedIdHub ==
    [ id |-> "hub",
      entertainmentConfigurationId |-> ConfigId,
      artNetUniverse |-> 0,
      channels |-> << Channel(0, 1, "8bit"), Channel(1, 4, "8bit"),
                      Channel(1, 7, "8bit") >> ]

NotUuidId == [i \in 1..36 |-> 122]

NotUuidHub == [DefaultHub EXCEPT !.entertainmentConfigurationId = NotUuidId]

OutOfRangeHub ==
    [DefaultHub EXCEPT !.channels = << Channel(0, 1, "8bit"), Channel(1, 511, "8bit") >>]

PassingHubs == {RepeatedIdHub, NotUuidHub, OutOfRangeHub}

PassingInit ==
    /\ now = Base
    /\ dtls = NewController(ConfigId)
    /\ sock = NewSocket
    /\ events = <<>>
    /\ \E h \in PassingHubs :
          /\ runner = NewRunner(h)
          /\ bridge = NewBridge(<< [id |-> h.entertainmentConfigurationId,
                                    channelIds |-> <<0, 1>>] >>)
    /\ status = NewHubStatus
    /\ cli = NewCli([h \in HubIds |-> 0])
    /\ hist = NewHist
    /\ last = NoTurn

PassingSpec == PassingInit /\ [][RunnerNext]_vars

(* The channel ids of a datagram's records, in order.                      *)
RecordIds(m) == [i \in 1..((Len(m) - 52) \div 7) |-> m[52 + 7 * (i - 1) + 1]]

(* C24: no datagram a runner writes (arming update, frame update, solid    *)
(* colour, keepalive resend) holds two records with the same channel id,   *)
(* for a hub configuration that passed the startup checks.                 *)
C24_NoRepeatedChannelRecord ==
    \A k \in 1..Len(last.wrote) :
        LET ids == RecordIds(last.wrote[k]) IN
        \A i, j \in 1..Len(ids) : i # j => ids[i] # ids[j]

(* Character codes of the hexadecimal digits and of the hyphen.            *)
HexDigitCodes == (48..57) \cup (65..70) \cup (97..102)

UuidShape(id) ==
    /\ Len(id) = 36
    /\ \A i \in 1..36 :
          IF i \in {9, 14, 19, 24} THEN id[i] = 45 ELSE id[i] \in HexDigitCodes

(* C25: a configuration id is accepted only if it is a 36-character string *)
(* of UUID shape (8-4-4-4-12 hexadecimal groups separated by hyphens):     *)
(* with any other id no controller is constructed, no start request is     *)
(* issued and connect() is never called.                                   *)
C25_OnlyUuidShapeAccepted ==
    (\/ runner.dtlsController # "null"
     \/ bridge.startRequests > 0
     \/ sock.state # "none")
    => UuidShape(runner.hub.entertainmentConfigurationId)

(* C26: every channel mapping of a hub that is streamed (a datagram was    *)
(* written for it) has a width of 3, 4 or 6 slots and lies within the 512  *)
(* slots of a universe: dmxStart >= 1 and dmxStart + width - 1 <= 512.     *)
C26_StreamedMappingsInRange ==
    IsSome(hist.firstDatagram) =>
        \A i \in 1..Len(runner.hub.channels) :
            LET ch == runner.hub.channels[i] IN
            /\ channelWidth(ch.channelMode) \in {3, 4, 6}
            /\ ch.dmxStart >= 1
            /\ ch.dmxStart + channelWidth(ch.channelMode) - 1 <= 512

-----------------------------------------------------------------------------
(* Properties of the frame decoding (checked under RunnerSpec).            *)

(* DMX slot k (1-indexed) of a frame's data; 0 beyond the data's length.   *)
Slot(data, k) == IF k \in 1..Len(data) THEN data[k] ELSE 0

(* What the mappings make of a frame: mapping i, of first slot s and width *)
(* w, is decoded from the slots s..s+w-1.                                  *)
DecodedPerMapping(channels, data) ==
    [i \in 1..Len(channels) |->
        LET s == channels[i].dmxStart
            w == channelWidth(channels[i].channelMode)
        IN  [ channelId |-> channels[i].channelId,
              color |-> getColorValue(channels[i].channelMode,
                                      [k \in 1..w |-> Slot(data, s + k - 1)]) ]]

(* C27: for a matching frame, each mapping with first slot s and width w   *)
(* is decoded from exactly the slots s..s+w-1 of the frame, slots beyond   *)
(* the data's length read as 0, and the updates are passed to sendUpdate   *)
(* in mapping order: an Open controller caches exactly that list, and a    *)
(* call that returns sent writes its datagram.                             *)
C27_FrameDecodedPerMappingInOrder ==
    [][(/\ last'.op = "handleDmx"
        /\ last'.arg.universe = runner.hub.artNetUniverse
        /\ runner.dtlsController # "null"
        /\ ControllerState = "Open")
       => LET expected == DecodedPerMapping(runner.hub.channels, last'.arg.data)
          IN  /\ dtls'.lastUpdate = Some(expected)
              /\ last'.ret = "sent" =>
                    last'.wrote = << Message(dtls.entertainmentConfigurationId,
                                             expected) >>]_vars

(* A frame shorter than the last mapping's slots was decoded and sent: the *)
(* four-slot mapping at slot 4 got its last slot from beyond the data.     *)
C27_Witness ==
    /\ last.op = "handleDmx"
    /\ last.ret = "sent"
    /\ Len(runner.hub.channels) = 2
    /\ runner.hub.channels[2].dmxStart + 3 > Len(last.arg.data)
    /\ Len(last.arg.data) >= runner.hub.channels[2].dmxStart
    /\ Get(dtls.lastUpdate)[1].color # Get(dtls.lastUpdate)[2].color
    /\ Len(last.wrote) = 1

(* Mapping i of the hub is an 8bit-dimmable mapping whose four slots in    *)
(* the frame just handled are Dim = 0x80 and (R, G, B) = (0x00, 0xFF,      *)
(* 0x00), and the frame's updates reached an Open controller.              *)
DimmedGreenCase(i) ==
    /\ last.op = "handleDmx"
    /\ last.ret \in {"sent", "throttled"}
    /\ i \in 1..Len(runner.hub.channels)
    /\ runner.hub.channels[i].channelMode = "8bit-dimmable"
    /\ [k \in 1..4 |-> Slot(last.arg.data, runner.hub.channels[i].dmxStart + k - 1)]
          = <<128, 0, 255, 0>>

(* C28 as stated: the mapping decodes to (0, G16, 0) with G16 within 1 of  *)
(* 33024.                                                                  *)
C28_DimmedGreenNear33024 ==
    \A i \in 1..Len(runner.hub.channels) :
        DimmedGreenCase(i) =>
            LET c == Get(dtls.lastUpdate)[i].color IN
            c[1] = 0 /\ c[2] \in 33023..33025 /\ c[3] = 0

(* C28 amended: the mapping decodes to (0, G16, 0) with G16 within 1 of    *)
(* 32896, the value of (0xFF * 0x80 * 257 * 257) / 65535.                  *)
C28_DimmedGreenNear32896 ==
    \A i \in 1..Len(runner.hub.channels) :
        DimmedGreenCase(i) =>
            LET c == Get(dtls.lastUpdate)[i].color IN
            c[1] = 0 /\ c[2] \in 32895..32897 /\ c[3] = 0

C28_Witness ==
    /\ DimmedGreenCase(2)
    /\ last.ret = "sent"
    /\ Get(dtls.lastUpdate)[2].color = <<0, 32896, 0>>

-----------------------------------------------------------------------------
(* RuntimeStatus alone: the receiver's entry and one hub's entry, their    *)
(* writer events, and one snapshot() whose returned object is kept by the  *)
(* caller.                                                                 *)
StatusLightIds == {0, 1}

StatusColors == SolidColors \cup { <<0, 0, 0>> }

OnDmxFrame(universe) ==
    /\ Get(cli.artnet).framesTotal < MaxDmx
    /\ cli' = [cli EXCEPT !.artnet = onDmxFrame(@, universe)]
    /\ last' = Turn("onDmxFrame", universe, "none", <<>>, None)
    /\ UNCHANGED <<now, dtls, sock, events, runner, status, bridge, hist>>

OnHubPacketSent ==
    /\ Calls(status) < MaxCalls
    /\ status' = onHubPacketSent(status)
    /\ last' = Quiet("onHubPacketSent")
    /\ UNCHANGED <<now, dtls, sock, events, runner, bridge, cli, hist>>

OnLightRgb(lightId, rgb16) ==
    /\ status' = onLightRgb(status, lightId, rgb16)
    /\ last' = Turn("onLightRgb", <<lightId, rgb16>>, "none", <<>>, None)
    /\ UNCHANGED <<now, dtls, sock, events, runner, bridge, cli, hist>>

SetHubError ==
    /\ status' = setHubError(status, "DTLS error")
    /\ last' = Quiet("setHubError")
    /\ UNCHANGED <<now, dtls, sock, events, runner, bridge, cli, hist>>

(* statusProvider (cli.ts line 253): snapshot() is called and returns.     *)
Snapshot ==
    /\ ~IsSome(cli.snapshot)
    /\ LET s == snapshot(cli.artnet, status, now) IN
       cli' = [cli EXCEPT !.snapshot = Some(s),
                          !.snapshotRead = Some(ReadSnapshot(s, cli.artnet, status))]
    /\ last' = Quiet("snapshot")
    /\ UNCHANGED <<now, dtls, sock, events, runner, status, bridge, hist>>

(* ArtNetDmxSource.start() (artnet.ts line 21) calls initArtNet(bindIp),    *)
(* with the one address the process binds its receiver to.                 *)
InitArtNet(bindIp) ==
    /\ cli' = [cli EXCEPT !.artnet = initArtNet(@, bindIp)]
    /\ last' = Turn("initArtNet", bindIp, "none", <<>>, None)
    /\ UNCHANGED <<now, dtls, sock, events, runner, status, bridge, hist>>

StatusNext ==
    \/ \E bindIp \in {NewArtNetStatus.bindIp} : InitArtNet(bindIp)
    \/ \E universe \in FrameUniverses : OnDmxFrame(universe)
    \/ OnHubPacketSent
    \/ \E lightId \in StatusLightIds, rgb16 \in StatusColors : OnLightRgb(lightId, rgb16)
    \/ SetHubError
    \/ Snapshot

StatusSpec == Init /\ [][StatusNext]_vars

(* C29: a snapshot is a deep copy: whatever writer events come after       *)
(* snapshot() returned, the returned object shows what it showed when it   *)
(* was returned, the receiver's counters and each light's rgb16 included.  *)
C29_SnapshotUnchangedByLaterWrites ==
    IsSome(cli.snapshot) =>
        ReadSnapshot(Get(cli.snapshot), cli.artnet, status) = Get(cli.snapshotRead)

-----------------------------------------------------------------------------
(* ConfigStore (cli.ts lines 455-589) on the path config.json, whose       *)
(* sibling backup (line 582) is config.legacy.json.  A file's content is a *)
(* text: [json |-> v] is the JSON text of the value v, anything else is no *)
(* JSON.  A property whose value is undefined is left out of the record,   *)
(* as JSON.stringify leaves it out.                                        *)
DEFAULT_CONFIG == [version |-> 3, artnet |-> [bindIp |-> "0.0.0.0"], hubs |-> <<>>]

(* r.k ?? d                                                                *)
OrElse(r, k, d) == IF k \in DOMAIN r THEN r[k] ELSE d

(* Number.parseInt(String(lightId), 10) of a string of character codes:    *)
(* the value of its longest prefix of digits, None (NaN) without one.      *)
RECURSIVE DigitsValue(_, _)
DigitsValue(chars, acc) ==
    IF chars = <<>> \/ Head(chars) \notin 48..57 THEN acc
    ELSE DigitsValue(Tail(chars), acc * 10 + (Head(chars) - 48))

parseInt(chars) ==
    IF chars = <<>> \/ Head(chars) \notin 48..57 THEN None
    ELSE Some(DigitsValue(chars, 0))

(* migrateIfNeeded, lines 520-537: one v2 hub as a v3 hub.                 *)
MigrateV2Hub(h) ==
    LET ent == OrElse(h, "entertainmentRoomId", <<>>)
        looksLikeUuid == Len(ent) = 36 /\ \E i \in 1..Len(ent) : ent[i] = 45
        lights == OrElse(h, "lights", <<>>)
        parsed == [i \in 1..Len(lights) |->
                      [ dmxStart |-> lights[i].dmxStart,
                        channelId |-> parseInt(lights[i].lightId),
                        channelMode |-> lights[i].channelMode ]]
        finite == SelectSeq(parsed, LAMBDA c : IsSome(c.channelId))
        hub == [ id |-> h.id, host |-> h.host, username |-> h.username,
                 clientKey |-> h.clientKey,
                 artNetUniverse |-> OrElse(h, "artNetUniverse", 0),
                 channels |-> [i \in 1..Len(finite) |->
                                  [finite[i] EXCEPT !.channelId = Get(@)]] ]
        defined == DOMAIN hub \cup (IF "name" \in DOMAIN h THEN {"name"} ELSE {})
                              \cup (IF looksLikeUuid THEN {"entertainmentConfigurationId"} ELSE {})
    IN  [k \in defined |->
            IF k = "name" THEN h.name
            ELSE IF k = "entertainmentConfigurationId" THEN ent
            ELSE hub[k]]

(* migrateIfNeeded(parsed), lines 511-578.  The documents here hold        *)
(* objects where a property is present, and the truthy strings are the     *)
(* non-empty ones.  The id of a v1 hub, makeHubId({host}), is written as   *)
(* the pair of the two parts it is made of.                                *)
migrateIfNeeded(parsed) ==
    LET has(k) == k \in DOMAIN parsed
        hue == OrElse(parsed, "hue", << >>)
        artnet == OrElse(parsed, "artnet", << >>)
        truthy(k) == k \in DOMAIN hue /\ hue[k] # ""
    IN
    IF has("version") /\ parsed.version = 3 /\ has("artnet") /\ has("hubs")
    THEN [didMigrate |-> FALSE, config |-> parsed]
    ELSE IF has("version") /\ parsed.version = 2 /\ has("artnet") /\ has("hubs")
    THEN [didMigrate |-> TRUE,
          config |-> [version |-> 3,
                      artnet |-> [bindIp |-> OrElse(artnet, "bindIp", DEFAULT_CONFIG.artnet.bindIp)],
                      hubs |-> [i \in 1..Len(parsed.hubs) |-> MigrateV2Hub(parsed.hubs[i])]]]
    ELSE IF has("hue") \/ has("artnet")
    THEN [didMigrate |-> TRUE,
          config |-> [version |-> 3,
                      artnet |-> [bindIp |-> OrElse(artnet, "host", DEFAULT_CONFIG.artnet.bindIp)],
                      hubs |-> IF truthy("host") /\ truthy("username") /\ truthy("clientKey")
                               THEN << [ id |-> <<"hue", hue.host>>,
                                         name |-> "Hue Hub",
                                         host |-> hue.host,
                                         username |-> hue.username,
                                         clientKey |-> hue.clientKey,
                                         artNetUniverse |-> OrElse(artnet, "universe", 0),
                                         channels |-> <<>> ] >>
                               ELSE <<>>]]
    ELSE [didMigrate |-> FALSE, config |-> DEFAULT_CONFIG]

(* save(config), lines 500-507: the object as save() leaves it before it   *)
(* is written; the caller's object is the one changed.                     *)
Sanitized(config) ==
    IF config.artnet.bindIp = "" THEN [config EXCEPT !.artnet = [bindIp |-> "0.0.0.0"]]
    ELSE config

(* A call of writeFile by load() call l: what was written where, and       *)
(* whether the write succeeded.                                            *)
WriteFile(f, l, file, text, ok) ==
    [f EXCEPT ![file] = IF ok THEN Some(text) ELSE @,
              !.writes = Append(@, [by |-> l, file |-> file, text |-> text, ok |-> ok])]

(* The texts config.json can hold when the store is first used.            *)
LegacyHub == [ id |-> "hub-1", host |-> "10.0.0.2", username |-> "user", clientKey |-> "00ff",
               artNetUniverse |-> 1,
               lights |-> << [dmxStart |-> 1, lightId |-> <<51>>, channelMode |-> "8bit"],
                             [dmxStart |-> 4, lightId |-> <<120>>, channelMode |-> "8bit"] >> ]

ConfigTexts ==
    { [json |-> DEFAULT_CONFIG],
      [json |-> [version |-> 2, artnet |-> [bindIp |-> "127.0.0.1"],
                 hubs |-> << [k \in DOMAIN LegacyHub \cup {"entertainmentRoomId"} |->
                                 IF k = "entertainmentRoomId" THEN ConfigId ELSE LegacyHub[k]] >>]],
      [json |-> [version |-> 2, artnet |-> [host |-> "127.0.0.1"],
                 hubs |-> << [k \in DOMAIN LegacyHub \cup {"entertainmentRoomId"} |->
                                 IF k = "entertainmentRoomId" THEN ShortId ELSE LegacyHub[k]] >>]],
      [json |-> [hue |-> [host |-> "10.0.0.2", username |-> "user", clientKey |-> "00ff"],
                 artnet |-> [host |-> "", universe |-> 1]]],
      [json |-> [hue |-> [host |-> "10.0.0.2"]]],
      [json |-> [lights |-> <<>>]],
      [text |-> "{"] }

(* load() is called (line 477): ensureExists (lines 462-475) writes the    *)
(* default document where there is no file, and readFile is awaited.       *)
Load(l) ==
    /\ cli.store[l].pc = "idle"
    /\ cli' = [cli EXCEPT
                 !.store[l] = [pc |-> "readFile"],
                 !.files.config = IF IsSome(@) THEN @ ELSE Some([json |-> DEFAULT_CONFIG])]
    /\ last' = Turn("load", l, "none", <<>>, None)
    /\ UNCHANGED <<now, dtls, sock, events, runner, status, bridge, hist>>

ReadFileDone_InvalidReset(l) ==
    /\ cli.store[l].pc = "readFile"
    /\ LET raw == Get(cli.files.config)
           parsed == IF "json" \in DOMAIN raw THEN raw.json ELSE [unknown |-> TRUE]
           migrated == migrateIfNeeded(parsed) IN
       cli' = [cli EXCEPT
                 !.store[l] = [pc |-> IF migrated.didMigrate THEN "backup" ELSE "returned",
                               raw |-> raw, didMigrate |-> migrated.didMigrate,
                               config |-> migrated.config],
                 !.files = IF "json" \in DOMAIN raw THEN @
                           ELSE WriteFile(@, l, "config", [json |-> DEFAULT_CONFIG], TRUE)]
    /\ last' = Turn("readFileDone", l, "none", <<>>, None)
    /\ UNCHANGED <<now, dtls, sock, events, runner, status, bridge, hist>>

(* readFile settles with the file's text (lines 479-492): the text is      *)
(* parsed and migrated; a migration calls backupLegacyConfig, which calls  *)
(* writeFile on the backup path (lines 580-584).                           *)
ReadFileDone(l) ==
    /\ cli.store[l].pc = "readFile"
    /\ LET raw == Get(cli.files.config) IN
       IF "json" \notin DOMAIN raw
       THEN cli' = [cli EXCEPT !.store[l] = [pc |-> "rejected", error |-> "not valid JSON"]]
       ELSE LET migrated == migrateIfNeeded(raw.json) IN
            cli' = [cli EXCEPT
                      !.store[l] = [pc |-> IF migrated.didMigrate THEN "backup" ELSE "returned",
                                    raw |-> raw, didMigrate |-> migrated.didMigrate,
                                    config |-> migrated.config]]
    /\ last' = Turn("readFileDone", l, "none", <<>>, None)
    /\ UNCHANGED <<now, dtls, sock, events, runner, status, bridge, hist>>

BackupDone_FailureThrown(l, ok) ==
    /\ cli.store[l].pc = "backup"
    /\ cli' = [cli EXCEPT
                 !.files = WriteFile(@, l, "backup", cli.store[l].raw, ok),
                 !.store[l] = IF ok THEN [@ EXCEPT !.pc = "save", !.config = Sanitized(@)]
                              ELSE [pc |-> "rejected", error |-> "write failed"]]
    /\ last' = Turn("backupDone", l, "none", <<>>, None)
    /\ UNCHANGED <<now, dtls, sock, events, runner, status, bridge, hist>>

(* The backup's writeFile settles; its failure is ignored (lines 585-587). *)
(* save() is called (line 491) and calls writeFile on the configuration    *)
(* path (line 508).                                                        *)
BackupDone(l, ok) ==
    /\ cli.store[l].pc = "backup"
    /\ cli' = [cli EXCEPT
                 !.files = WriteFile(@, l, "backup", cli.store[l].raw, ok),
                 !.store[l] = [@ EXCEPT !.pc = "save", !.config = Sanitized(@)]]
    /\ last' = Turn("backupDone", l, "none", <<>>, None)
    /\ UNCHANGED <<now, dtls, sock, events, runner, status, bridge, hist>>

(* The save's writeFile settles: load() returns the migrated document      *)
(* (line 495), or rejects with the error of the write.                     *)
SaveDone(l, ok) ==
    /\ cli.store[l].pc = "save"
    /\ cli' = [cli EXCEPT
                 !.files = WriteFile(@, l, "config", [json |-> cli.store[l].config], ok),
                 !.store[l] = IF ok THEN [@ EXCEPT !.pc = "returned"]
                              ELSE [pc |-> "rejected", error |-> "write failed"]]
    /\ last' = Turn("saveDone", l, "none", <<>>, None)
    /\ UNCHANGED <<now, dtls, sock, events, runner, status, bridge, hist>>

ConfigInit ==
    /\ now = Base
    /\ dtls = NewController(ConfigId)
    /\ sock = NewSocket
    /\ events = <<>>
    /\ runner = NewRunner(DefaultHub)
    /\ status = NewHubStatus
    /\ bridge = NewBridge(<< [id |-> ConfigId, channelIds |-> <<0, 1>>] >>)
    /\ cli \in {[NewCli([h \in HubIds |-> 0]) EXCEPT !.files.config = c] :
                   c \in {None} \cup {Some(t) : t \in ConfigTexts}}
    /\ hist = NewHist
    /\ last = NoTurn

ConfigNext ==
    \/ \E l \in 1..MaxLoads : Load(l)
    \/ \E l \in 1..MaxLoads : ReadFileDone(l)
    \/ \E l \in 1..MaxLoads, ok \in BOOLEAN : BackupDone(l, ok)
    \/ \E l \in 1..MaxLoads, ok \in BOOLEAN : SaveDone(l, ok)

ConfigSpec == ConfigInit /\ [][ConfigNext]_vars

(* The writeFile calls of load() call l, in the order they were made.      *)
WritesBy(l) == SelectSeq(cli.files.writes, LAMBDA w : w.by = l)

(* C30: when load() migrates a legacy document, the write of the raw text  *)
(* it read to config.legacy.json is attempted before config.json is        *)
(* written with the v3 document, and a failed backup write does not keep   *)
(* the v3 document from being saved and returned: a migrating load() makes *)
(* its backup write first and its save second, its only rejection is that  *)
(* of the save's write, and once it has returned, it returned the migrated *)
(* document and config.json was written with that document's text.         *)
C30_BackupAttemptedBeforeSave ==
    \A l \in 1..MaxLoads :
        LET st == cli.store[l]
            w == WritesBy(l)
            migrates == st.pc \in {"backup", "save", "returned"} /\ st.didMigrate
        IN  /\ migrates =>
                /\ st.config = IF st.pc = "backup" THEN migrateIfNeeded(st.raw.json).config
                               ELSE Sanitized(migrateIfNeeded(st.raw.json).config)
                /\ Len(w) = CASE st.pc = "backup" -> 0
                              [] st.pc = "save" -> 1
                              [] OTHER -> 2
                /\ Len(w) >= 1 => (w[1].file = "backup" /\ w[1].text = st.raw)
                /\ Len(w) = 2 => w[2] = [by |-> l, file |-> "config",
                                         text |-> [json |-> st.config], ok |-> TRUE]
            /\ (w # <<>> /\ st.pc = "rejected") =>
                  (Len(w) = 2 /\ w[1].file = "backup" /\ w[2].file = "config" /\ ~w[2].ok)

C30_Witness ==
    \E l \in 1..MaxLoads :
        /\ cli.store[l].pc = "returned"
        /\ cli.store[l].didMigrate
        /\ WritesBy(l)[1].file = "backup" /\ ~WritesBy(l)[1].ok
        /\ cli.files.backup = None
        /\ cli.files.config = Some([json |-> cli.store[l].config])
        /\ cli.store[l].config.version = 3

(* C31: load() on a file that exists but is not valid JSON fails with an   *)
(* error, leaves the file's content unchanged and writes no backup: while  *)
(* config.json holds text that is no JSON, a load() call that is started   *)
(* or whose readFile settles leaves both files and the list of writeFile   *)
(* calls as they were, and the call whose readFile settles is rejected     *)
(* with the "not valid JSON" error.                                        *)
C31_InvalidJsonRejectedUntouched ==
    [][\A l \in 1..MaxLoads :
          (/\ IsSome(cli.files.config)
           /\ "json" \notin DOMAIN Get(cli.files.config)
           /\ cli'.store[l] # cli.store[l])
          => /\ cli'.files = cli.files
             /\ cli.store[l].pc = "readFile"
                   => cli'.store[l] = [pc |-> "rejected", error |-> "not valid JSON"]]_vars

C31_Witness ==
    \E l \in 1..MaxLoads :
        /\ cli.store[l] = [pc |-> "rejected", error |-> "not valid JSON"]
        /\ cli.files = [config |-> Some([text |-> "{"]), backup |-> None, writes |-> <<>>]

-----------------------------------------------------------------------------
(* Properties of the throttle and of the socket writes (checked under      *)
(* Spec).                                                                  *)

(* C32: a keepalive resend records its send time in lastPacketSentAtMs,    *)
(* and a sendUpdate call made less than minIntervalMs after a keepalive    *)
(* resend (here: in the turn right after it, at the same instant) returns  *)
(* throttled.                                                              *)
C32_KeepaliveResendStampsThrottle ==
    [][/\ (last'.op = "keepalive" /\ last'.wrote # <<>>) => dtls'.lastPacketSentAtMs = now
       /\ (last.op = "keepalive" /\ last.wrote # <<>> /\ last'.op = "sendUpdate")
             => last'.ret = "throttled"]_vars

(* C33: throttled calls do not move the throttle window: a sendUpdate call *)
(* on an Open controller returns sent if no earlier call returned sent,    *)
(* throttled if the most recent call that returned sent was less than      *)
(* minIntervalMs (40 ms) ago, and sent if it was 40 ms ago or more,        *)
(* whatever calls were throttled in between.                               *)
C33_WindowRunsFromLastSent ==
    [][(last'.op = "sendUpdate" /\ ControllerState = "Open") =>
          last'.ret = IF IsSome(hist.lastSentAt) /\ now - Get(hist.lastSentAt) < minIntervalMs
                      THEN "throttled" ELSE "sent"]_vars

C33_Witness ==
    /\ last.op = "sendUpdate"
    /\ last.ret = "throttled"
    /\ ControllerState = "Open"
    /\ now - Get(hist.lastSentAt) = minIntervalMs - 1
    /\ dtls.lastUpdateTimestamp = Some(now)
    /\ dtls.lastPacketSentAtMs = Get(hist.lastSentAt)

(* C35: no datagram is written to the socket while the controller is not   *)
(* Open: a turn that wrote a datagram was taken on an Open controller, and *)
(* neither sendUpdate nor a keepalive tick writes before the handshake has *)
(* succeeded or after close(), a peer close or a socket error.             *)
C35_WritesOnlyWhileOpen ==
    /\ last.wrote # <<>> => ControllerState = "Open"
    /\ (last.op \in {"sendUpdate", "keepalive"} /\ ControllerState # "Open") => last.wrote = <<>>

C35_Witness ==
    /\ last.op = "keepalive"
    /\ ControllerState = "Closed"
    /\ hist.closedBy = "error"
    /\ IsSome(dtls.lastUpdate)
    /\ now - Get(dtls.lastUpdateTimestamp) > KeepaliveStaleMs
    /\ last.wrote = <<>>

-----------------------------------------------------------------------------
(* The controller with its timers running: the interval of connect() keeps *)
(* firing (setInterval, artnet.ts line 119) and time passes.               *)
FairSpec ==
    /\ Spec
    /\ WF_vars(KeepaliveTick)
    /\ WF_vars(\E t \in TimePoints : Advance(t))
    /\ WF_vars(Rollover)

(* The turn just taken wrote the update most recently passed to sendUpdate *)
(* while Open.                                                             *)
LastPassedWritten ==
    /\ IsSome(hist.lastPassed)
    /\ last.wrote = << Message(dtls.entertainmentConfigurationId, Get(hist.lastPassed)) >>

(* C36: if from some point on the controller stays Open and sendUpdate is  *)
(* not called any more, the update most recently passed to sendUpdate      *)
(* while Open is written to the socket after that point (and, the ticks    *)
(* going on, again and again).                                             *)
C36_LastUpdateEventuallyWritten ==
    <>[](ControllerState = "Open" /\ IsSome(hist.lastPassed) /\ last.op # "sendUpdate")
        => []<>LastPassedWritten

C36_Witness ==
    /\ last.op = "keepalive"
    /\ ControllerState = "Open"
    /\ hist.lastRet = "throttled"
    /\ LastPassedWritten
    /\ Get(hist.firstDatagram) # last.wrote[1]

-----------------------------------------------------------------------------
(* Properties of the runner's close() (checked under RunnerSpec).          *)

(* C34: startup is cancellable: once a close() of the runner has returned  *)
(* (the stop request it issued has settled), the runner issues no further  *)
(* start request, creates no DTLS socket and its controller does not       *)
(* become Open.                                                            *)
C34_NoStartupAfterCloseReturned ==
    [][runner.closeApi = "done" =>
          /\ bridge'.startRequests = bridge.startRequests
          /\ sock.state = "none" => sock'.state = "none"
          /\ ControllerState # "Open" => ControllerState' # "Open"]_vars

(* C37: runner close() is idempotent: however many times close() is        *)
(* called, one after the other or while an earlier call is still pending,  *)
(* only a call made before any other has called the controller's close()   *)
(* calls it, and at most one stop request is issued.                       *)
C37_RunnerCloseIdempotent ==
    [][/\ (last'.op = "runnerClose" /\ runner.dtlsController # "null")
             => runner.closeDtls = "none"
       /\ bridge'.stopRequests <= 1]_vars

C37_Witness ==
    /\ last.op = "runnerClose"
    /\ runner.closeDtls = "done"
    /\ runner.closeApi = "done"
    /\ sock.endCalls = 1
    /\ bridge.stopRequests = 1

(* C38: every datagram written for a hub, be it the arming black, an       *)
(* Art-Net-driven or a solid-color update or a keepalive resend, holds     *)
(* exactly one channel record per configured mapping, in the order of the  *)
(* configuration's mappings, and so is 52 + 7 * |channels| bytes long.     *)
C38_OneRecordPerMapping ==
    \A i \in 1..Len(last.wrote) :
        LET m == last.wrote[i]
            channels == runner.hub.channels
        IN  /\ Len(m) = 52 + 7 * Len(channels)
            /\ RecordIds(m) = [j \in 1..Len(channels) |-> channels[j].channelId % 256]

C38_Witness ==
    /\ last.op = "keepalive"
    /\ Len(last.wrote) = 1
    /\ Len(runner.hub.channels) = 2
    /\ Len(last.wrote[1]) = 66
    /\ status.updatePacketsSent = MaxCalls
    /\ Get(hist.firstDatagram) # last.wrote[1]

(* The sum of the values of a function with a finite domain.               *)
RECURSIVE SumOver(_)
SumOver(f) ==
    IF DOMAIN f = {} THEN 0
    ELSE LET k == CHOOSE x \in DOMAIN f : TRUE
         IN  f[k] + SumOver([x \in DOMAIN f \ {k} |-> f[x]])

(* C39: in every state of RuntimeStatus reached by initArtNet and          *)
(* onDmxFrame calls, the receiver's framesTotal is the sum of its          *)
(* framesByUniverse over all universes.                                    *)
C39_TotalIsSumOverUniverses ==
    IsSome(cli.artnet) =>
        Get(cli.artnet).framesTotal = SumOver(Get(cli.artnet).framesByUniverse)

C39_Witness ==
    /\ last.op = "initArtNet"
    /\ Get(cli.artnet).framesTotal = MaxDmx
    /\ DOMAIN Get(cli.artnet).framesByUniverse = FrameUniverses
    /\ \E u \in FrameUniverses : Get(cli.artnet).framesByUniverse[u] > 1

-----------------------------------------------------------------------------
(* ArtNetDmxSource (artnet.ts lines 6-40) under any calls of start() and   *)
(* close().  The ArtNetController objects it creates are numbered;         *)
(* controller is the field, bound holds the controllers whose socket has   *)
(* been bound (line 25) and not yet released, which close() settling does. *)
NewSource == [controller |-> None, bound |-> {}, created |-> 0]

(* start(), lines 17-30.                                                   *)
SourceStart ==
    /\ IsSome(cli.dmxSource.controller) \/ cli.dmxSource.created < MaxBinds
    /\ IF IsSome(cli.dmxSource.controller)
       THEN cli' = cli
       ELSE LET c == cli.dmxSource.created + 1 IN
            cli' = [cli EXCEPT
                      !.artnet = initArtNet(@, NewArtNetStatus.bindIp),
                      !.dmxSource = [controller |-> Some(c),
                                     bound |-> @.bound \cup {c},
                                     created |-> c]]
    /\ last' = Turn("sourceStart", <<>>, "none", <<>>, None)
    /\ UNCHANGED <<now, dtls, sock, events, runner, status, bridge, hist>>

(* close() up to its await, lines 32-38: the field is cleared and the      *)
(* controller's close() is called.                                         *)
SourceClose ==
    /\ cli' = [cli EXCEPT !.dmxSource.controller = None]
    /\ last' = Turn("sourceClose", <<>>, "none", <<>>, None)
    /\ UNCHANGED <<now, dtls, sock, events, runner, status, bridge, hist>>

(* The close() of controller c settles (line 38): its socket is released.  *)
SourceCloseSettles(c) ==
    /\ c \in cli.dmxSource.bound
    /\ cli.dmxSource.controller # Some(c)
    /\ cli' = [cli EXCEPT !.dmxSource.bound = @ \ {c}]
    /\ last' = Turn("sourceCloseSettles", c, "none", <<>>, None)
    /\ UNCHANGED <<now, dtls, sock, events, runner, status, bridge, hist>>

(* A frame of universe u arrives on the socket of controller c: its 'dmx'  *)
(* listener (lines 26-29) counts the frame and emits it.                   *)
SourceDmx(c, u) ==
    /\ c \in cli.dmxSource.bound
    /\ Len(cli.received) < MaxDmx
    /\ cli' = [cli EXCEPT
                 !.artnet = onDmxFrame(@, u),
                 !.received = Append(@, [universe |-> u, seq |-> Len(@) + 1])]
    /\ last' = Turn("sourceDmx", <<c, u>>, "none", <<>>, None)
    /\ UNCHANGED <<now, dtls, sock, events, runner, status, bridge, hist>>

SourceInit ==
    /\ now = Base
    /\ dtls = NewController(ConfigId)
    /\ sock = NewSocket
    /\ events = <<>>
    /\ runner = NewRunner(DefaultHub)
    /\ status = NewHubStatus
    /\ bridge = NewBridge(<< [id |-> ConfigId, channelIds |-> <<0, 1>>] >>)
    /\ cli = [NewCli([h \in HubIds |-> 0]) EXCEPT !.dmxSource = NewSource, !.artnet = None]
    /\ hist = NewHist
    /\ last = NoTurn

SourceNext ==
    \/ SourceStart
    \/ SourceClose
    \/ \E c \in 1..MaxBinds : SourceCloseSettles(c)
    \/ \E c \in 1..MaxBinds, u \in FrameUniverses : SourceDmx(c, u)

SourceSpec == SourceInit /\ [][SourceNext]_vars

(* C40: whatever start() and close() calls are made on one receiver, at    *)
(* most one Art-Net socket is bound at any time: a repeated start() binds  *)
(* nothing, a repeated close() does nothing, and a start() made while a    *)
(* close() is pending binds no second socket before the first is released. *)
C40_AtMostOneSocketBound ==
    /\ Cardinality(cli.dmxSource.bound) <= 1
    /\ (last.op = "sourceStart" /\ IsSome(cli.dmxSource.controller))
          => cli.dmxSource.bound = {Get(cli.dmxSource.controller)}

=============================================================================
